---- MODULE Spec2Model ----
(***************************************************************************)
(* Verification model of umami-oidc: the OIDC callback state machine, the  *)
(* signed state token (generateState / verifyState) and the discovery      *)
(* cache (getDiscovery).                                                    *)
(*                                                                          *)
(* Strings are sequences of character codes:                                *)
(*   0..35    the base-36 digits '0'..'9','a'..'z' (0..15 are the hex ones) *)
(*   DOT      '.'                                                           *)
(*   BANG     '!', a character that is neither a digit nor a dot            *)
(*   100..    the characters of an HMAC digest (see createHmac)             *)
(* Time is Date.now() in milliseconds, counted from the start of the run.   *)
(***************************************************************************)
EXTENDS Integers, Sequences, FiniteSets, TLC

\* ------------------------------------------------------------------ bounds
MaxTicks == 2
NumSecrets == 2
MaxClaimLen == 3
MaxArrayLen == 2
MaxInitUsers == 2
MaxLogins == 3
MaxRules == 2
MaxEdits == 3
MaxSegments == 4

\* --------------------------------------------------------- program constants
DISCOVERY_TTL_MS == 5 * 60 * 1000
DEFAULT_MAX_AGE_MS == 10 * 60 * 1000

DOT == 36
BANG == DOT + 1
COMMA == BANG + 1
SPACE == COMMA + 1

VARIABLES
  now,            \* Date.now()
  ticks,          \* number of clock advances so far (bounds the run)
  st_state,       \* state engine: the state string under test
  st_origin,      \* state engine: how st_state was produced
  st_call,        \* state engine: the last verifyState call and its result
  discoveryCache,       \* _discoveryCache
  discoveryCacheTime,   \* _discoveryCacheTime
  dc_call,        \* discovery: per caller, the getDiscovery call in progress
  dc_calls,       \* discovery: number of getDiscovery calls started
  dc_fetched,     \* discovery: the documents that successful fetches produced
  cb_issued,      \* callback: the state and nonce the authorize endpoint issued
  cb_req,         \* callback: the request being handled
  cb,             \* callback: position and locals of the handler
  cb_resp,        \* callback: the response of the handler
  cb_count,       \* callback: number of requests received
  cb_accepted,    \* callback: states that passed the state check in earlier requests
  cb_failed,      \* callback: states presented in earlier requests that failed
  rl_call,        \* role mapper: the mapOidcRole call and its result
  pv_users,       \* provisioning: the user table, a sequence of accounts
  pv_call,        \* provisioning: the last findOrCreateOidcUser call
  pv_logins,      \* provisioning: number of calls so far
  tm_rules,       \* teams: the value of the Redis key oidc:team:rules, per team id
  tm_teams,       \* teams: the ids of the team table
  tm_members,     \* teams: the teamUser table, a sequence of memberships
  tm_call,        \* teams: the last processOidcTeamMappings run
  tm_logins,      \* teams: number of runs so far
  tm_edit,        \* rules: per administrator, the rule edit in progress
  tm_clock,       \* rules: number of Redis reads and writes so far
  tm_edits,       \* rules: number of edits started
  tm_nextId,      \* rules: the next rule id randomUUID hands out
  tm_redis,       \* rules: redis.enabled
  tm_keys,        \* rules: the team ids that are keys of the stored object
  cf_env,         \* configuration: process.env
  cf_call,        \* configuration: the last call of a configuration function or endpoint
  cc_proc         \* concurrent logins: per callback, its position in steps 6 and 6b

clockVars == <<now, ticks>>
stVars == <<st_state, st_origin, st_call>>
dcVars == <<discoveryCache, discoveryCacheTime, dc_call, dc_calls, dc_fetched>>
cbVars == <<cb_issued, cb_req, cb, cb_resp, cb_count, cb_accepted, cb_failed>>
rlVars == <<rl_call>>
pvVars == <<pv_users, pv_call, pv_logins>>
tmVars == <<tm_rules, tm_teams, tm_members, tm_call, tm_logins,
           tm_edit, tm_clock, tm_edits, tm_nextId, tm_redis, tm_keys>>
cfVars == <<cf_env, cf_call>>
vars == <<now, ticks, st_state, st_origin, st_call,
          discoveryCache, discoveryCacheTime, dc_call, dc_calls, dc_fetched,
          cb_issued, cb_req, cb, cb_resp, cb_count, cb_accepted, cb_failed,
          rl_call, pv_users, pv_call, pv_logins,
          tm_rules, tm_teams, tm_members, tm_call, tm_logins,
          tm_edit, tm_clock, tm_edits, tm_nextId, tm_redis, tm_keys,
          cf_env, cf_call, cc_proc>>

\* ------------------------------------------------------------------ strings
Secrets == 1..NumSecrets

\* String.prototype.split('.')
RECURSIVE Split(_)
Split(s) ==
  IF \A i \in 1..Len(s) : s[i] # DOT
  THEN <<s>>
  ELSE LET i == CHOOSE j \in 1..Len(s) :
                  s[j] = DOT /\ \A k \in 1..(j - 1) : s[k] # DOT
       IN <<SubSeq(s, 1, i - 1)>> \o Split(SubSeq(s, i + 1, Len(s)))

\* Array.prototype.join('.') / the template `${a}.${b}`
RECURSIVE Join(_)
Join(parts) ==
  IF Len(parts) = 0 THEN <<>>
  ELSE IF Len(parts) = 1 THEN parts[1]
  ELSE parts[1] \o <<DOT>> \o Join(Tail(parts))

\* Number.prototype.toString(36) for a non-negative integer
RECURSIVE ToBase36(_)
ToBase36(n) ==
  IF n < 36 THEN <<n>> ELSE ToBase36(n \div 36) \o <<n % 36>>

\* the value of a string of base-36 digits
RECURSIVE DigitsValue(_)
DigitsValue(s) ==
  IF Len(s) = 0 THEN 0
  ELSE 36 * DigitsValue(SubSeq(s, 1, Len(s) - 1)) + s[Len(s)]

\* parseInt(s, 36): the longest prefix of digits; NaN when that prefix is empty
parseInt36(s) ==
  LET n == Cardinality({i \in 1..Len(s) : \A k \in 1..i : s[k] \in 0..35})
  IN IF n = 0 THEN [nan |-> TRUE, val |-> 0]
     ELSE [nan |-> FALSE, val |-> DigitsValue(SubSeq(s, 1, n))]

\* createHmac with the key left out of the digest
createHmac_nokey(appSecret, payload) ==
  <<200>> \o [i \in 1..Len(payload) |-> 100 + payload[i]]

\* createHmac('sha256', key).update(payload).digest('hex').slice(0, 16):
\* a symbolic digest, one result per (key, payload) pair, written in
\* characters 100.. that occur in no timestamp or nonce
createHmac(appSecret, payload) ==
  <<200 + appSecret>> \o [i \in 1..Len(payload) |-> 100 + payload[i]]

\* randomBytes(16).toString('hex'): the values it may return
randomBytesHex == {<<10, 1>>, <<11, 2>>}

\* generateState(appSecret): the values it may return at time `now`
generateState(appSecret) ==
  { LET payload == Join(<<ToBase36(now), nonce>>)
    IN Join(<<payload, createHmac(appSecret, payload)>>) :
    nonce \in randomBytesHex }

\* generateNonce()
generateNonce == randomBytesHex

\* verifyState with the age test `>=` in place of `>`
verifyState_ge(state, appSecret, maxAgeMs) ==
  LET parts == Split(state) IN
  IF Len(parts) # 3 THEN FALSE
  ELSE LET payload == Join(<<parts[1], parts[2]>>)
           expectedSig == createHmac(appSecret, payload)
           timestamp == parseInt36(parts[1])
       IN IF parts[3] # expectedSig THEN FALSE
          ELSE IF ~timestamp.nan /\ now - timestamp.val >= maxAgeMs THEN FALSE
          ELSE TRUE

\* verifyState without the age test
verifyState_noage(state, appSecret, maxAgeMs) ==
  LET parts == Split(state) IN
  IF Len(parts) # 3 THEN FALSE
  ELSE LET payload == Join(<<parts[1], parts[2]>>)
           expectedSig == createHmac(appSecret, payload)
       IN IF parts[3] # expectedSig THEN FALSE
          ELSE TRUE

\* verifyState(state, appSecret, maxAgeMs) at time `now`.  A comparison
\* with NaN is false, so an undecodable timestamp never counts as expired.
\* The try/catch has nothing to catch for a string argument.
verifyState(state, appSecret, maxAgeMs) ==
  LET parts == Split(state) IN
  IF Len(parts) # 3 THEN FALSE
  ELSE LET payload == Join(<<parts[1], parts[2]>>)
           expectedSig == createHmac(appSecret, payload)
           timestamp == parseInt36(parts[1])
       IN IF parts[3] # expectedSig THEN FALSE
          ELSE IF ~timestamp.nan /\ now - timestamp.val > maxAgeMs THEN FALSE
          ELSE TRUE


\* ---------------------------------------------------------- discovery cache
NumCallers == 2
MaxCalls == 3
Callers == 1..NumCallers

\* null, the initial value of _discoveryCache
NoDoc == [ok |-> FALSE, start |-> 0, by |-> 0]
\* a caller that is not inside getDiscovery
NoDcCall == [pc |-> "idle", now |-> 0, sawDoc |-> NoDoc, sawTime |-> 0,
             result |-> "none", doc |-> NoDoc, status |-> 0]

DcIdle ==
  /\ discoveryCache = NoDoc
  /\ discoveryCacheTime = 0
  /\ dc_call = [c \in Callers |-> NoDcCall]
  /\ dc_calls = 0
  /\ dc_fetched = {}

\* the test of line 312 with `<=` in place of `<`
CacheFresh_le(n) ==
  discoveryCache.ok /\ n - discoveryCacheTime <= DISCOVERY_TTL_MS

\* _discoveryCache && now - _discoveryCacheTime < DISCOVERY_TTL_MS
CacheFresh(n) ==
  discoveryCache.ok /\ n - discoveryCacheTime < DISCOVERY_TTL_MS


\* ----------------------------------------------------------- callback, data
MaxRequests == 2
AppSecret == 1

\* null / undefined for a query parameter, a cookie or a claim
NullStr == <<-1>>
\* `!v` is false: v is neither null nor the empty string
Truthy(v) == v # NullStr /\ v # <<>>

OidcCookies == {"oidc_state", "oidc_nonce", "oidc_redirect_uri"}
AuthCookies == {"umami.auth", "oidc_auth_token"}

NoCb == [pc |-> "idle", at |-> 0, stateOk |-> FALSE, failed |-> "none",
         calls |-> <<>>, idNonce |-> NullStr, user |-> "none", team |-> "none"]
NoResp == [kind |-> "none", error |-> "", set |-> {}, deleted |-> {}]

CbIdle ==
  /\ cb_issued = [state |-> NullStr, nonce |-> NullStr]
  /\ cb_req = [enabled |-> FALSE, code |-> NullStr, state |-> NullStr,
               error |-> NullStr, savedState |-> NullStr, savedNonce |-> NullStr]
  /\ cb = NoCb
  /\ cb_resp = NoResp
  /\ cb_count = 0
  /\ cb_accepted = {}
  /\ cb_failed = {}

\* the redirect to /login with searchParams.set('error', msg), for a catch
\* that leaves the message out
ErrorRedirect_nomsg(msg) == [kind |-> "login", error |-> "", set |-> {}, deleted |-> {}]

\* the redirect to /login with one text for every failure
ErrorRedirect_generic(msg) ==
  [kind |-> "login", error |-> "OIDC authentication failed", set |-> {}, deleted |-> {}]

\* the redirect to /login with searchParams.set('error', msg)
ErrorRedirect(msg) == [kind |-> "login", error |-> msg, set |-> {}, deleted |-> {}]

\* the redirect to /api/auth/oidc/complete that leaves the OIDC cookies alone
CompleteRedirect_keep ==
  [kind |-> "complete", error |-> "", set |-> AuthCookies, deleted |-> {}]

\* the redirect to /api/auth/oidc/complete: the three OIDC cookies deleted,
\* umami.auth and oidc_auth_token set
CompleteRedirect ==
  [kind |-> "complete", error |-> "", set |-> AuthCookies, deleted |-> OidcCookies]

\* the state test of line 79 without the comparison with the cookie
StateMatches_nocookie(state, savedState) == TRUE

\* !(!savedState || state !== savedState)
StateMatches(state, savedState) == Truthy(savedState) /\ state = savedState

\* savedNonce && idTokenClaims.nonce && idTokenClaims.nonce !== savedNonce
\* with the test inverted to accept every token
NonceMismatch_never(savedNonce, idNonce) == FALSE

\* savedNonce && idTokenClaims.nonce && idTokenClaims.nonce !== savedNonce
NonceMismatch(savedNonce, idNonce) ==
  Truthy(savedNonce) /\ Truthy(idNonce) /\ idNonce # savedNonce

\* the outcomes of `await import(...)` and `await applyTeamMappings(...)`
\* that throw inside the inner try; "synced", "redis_off" and
\* "store_or_member_error" return
TeamThrows == {"not_installed", "threw"}

\* the inner try/catch of step 6b, rethrowing what the team step throws
TeamCatch_rethrow(outcome) == IF outcome \in TeamThrows THEN "rethrow" ELSE "continue"

\* the inner try/catch of step 6b: every throw is swallowed
TeamCatch(outcome) == "continue"

\* the order of steps 6, 6b, 7 with the token created before the team step
StepAfter_tokenfirst(step) ==
  CASE step = "provision" -> "token"
    [] step = "token" -> "team"
    [] step = "team" -> "respond"

\* the order of steps 6, 6b, 7, 8 of the handler
StepAfter(step) ==
  CASE step = "provision" -> "team"
    [] step = "team" -> "token"
    [] step = "token" -> "respond"

\* ------------------------------------------------------- role mapper, data
\* a claim value as JSON delivers it: t is its type, s the characters of a
\* string, a the elements of an array, n the value of a number or boolean
Undefined == [t |-> "undefined", s |-> <<>>, a |-> <<>>, n |-> 0]
Str(s) == [t |-> "string", s |-> s, a |-> <<>>, n |-> 0]
Arr(a) == [t |-> "array", s |-> <<>>, a |-> a, n |-> 0]
Num(n) == [t |-> "number", s |-> <<>>, a |-> <<>>, n |-> n]
Bool(n) == [t |-> "boolean", s |-> <<>>, a |-> <<>>, n |-> n]

NoRlCall == [pc |-> "idle", userInfo |-> [roleClaim |-> Undefined],
             idTokenClaims |-> [roleClaim |-> Undefined],
             adminGroup |-> <<>>, result |-> "none"]

RlIdle == rl_call = NoRlCall

\* ------------------------------------------------------ provisioning, data
NoPvCall == [pc |-> "idle",
             userInfo |-> [sub |-> <<>>, name |-> NullStr,
                           preferred_username |-> NullStr, email |-> NullStr,
                           roleClaim |-> Undefined],
             idTokenClaims |-> [roleClaim |-> Undefined],
             autoCreate |-> FALSE, before |-> <<>>, pick |-> 0,
             kind |-> "none",
             user |-> [id |-> 0, username |-> <<>>, role |-> "none", isAdmin |-> FALSE],
             errName |-> <<>>, errSub |-> <<>>,
             session |-> "none", repeat |-> FALSE, prevKind |-> "none", prevId |-> 0]

PvIdle ==
  /\ pv_users = <<>>
  /\ pv_call = NoPvCall
  /\ pv_logins = 0

\* ------------------------------------------------------------- teams, data
TeamIds == {1, 2}
Admins == {1, 2}
Fields == {"groups"}

NoRules == [t \in TeamIds |-> <<>>]
NoTmCall == [done |-> FALSE, userId |-> 0, userInfo |-> [f \in Fields |-> Undefined],
             idTokenClaims |-> [f \in Fields |-> Undefined], rules |-> NoRules, before |-> <<>>,
             evaluated |-> {}, repeat |-> FALSE,
             fault |-> [teamId |-> 0, at |-> "none"], thrown |-> FALSE]
NoBody == [teamId |-> 0, ruleId |-> 0, claimField |-> "", claimValue |-> NullStr,
           teamRole |-> ""]
NoEdit == [pc |-> "idle", op |-> "none", teamId |-> 0,
           rule |-> [id |-> 0, claimField |-> "", claimValue |-> <<>>, teamRole |-> ""],
           all |-> NoRules, readAt |-> 0, wroteAt |-> 0, written |-> NoRules,
           result |-> "none", method |-> "none", isAdmin |-> FALSE,
           parsed |-> FALSE, body |-> NoBody, status |-> 0, readOk |-> FALSE,
           stored |-> NoRules, keys |-> {}]

TmIdle ==
  /\ tm_rules = NoRules
  /\ tm_teams = {}
  /\ tm_members = <<>>
  /\ tm_call = NoTmCall
  /\ tm_logins = 0
  /\ tm_edit = [a \in Admins |-> NoEdit]
  /\ tm_clock = 0
  /\ tm_edits = 0
  /\ tm_nextId = 1
  /\ tm_redis = TRUE
  /\ tm_keys = {t \in TeamIds : tm_rules[t] # <<>>}

\* ----------------------------------------------------- configuration, data
\* an environment with none of the variables set
NoEnv == [OIDC_ENABLED |-> NullStr, OIDC_CLIENT_ID |-> NullStr,
          OIDC_CLIENT_SECRET |-> NullStr, OIDC_ISSUER_URL |-> NullStr,
          OIDC_SCOPES |-> NullStr, OIDC_REDIRECT_URI |-> NullStr,
          OIDC_ROLE_CLAIM |-> NullStr, OIDC_ADMIN_GROUP |-> NullStr,
          OIDC_AUTO_CREATE |-> NullStr, OIDC_DISPLAY_NAME |-> NullStr,
          APP_URL |-> NullStr]

\* no call yet
NoCfCall == [op |-> "none", env |-> NoEnv, again |-> FALSE]

CfIdle ==
  /\ cf_env = NoEnv
  /\ cf_call = NoCfCall

\* no callback is between its provisioning and the end of its team step
CcIdle ==
  cc_proc = [c \in {1, 2} |->
               [pc |-> "idle", userInfo |-> NoPvCall.userInfo, autoCreate |-> FALSE,
                pick |-> 0, kind |-> "none", userId |-> 0, t |-> 0,
                role |-> ""]]

\* ------------------------------------------------------------ clock
\* time passes between any two steps
Advance(steps) ==
  /\ ticks < MaxTicks
  /\ \E d \in steps : now' = now + d
  /\ ticks' = ticks + 1

\* the clock steps that bring an age to just below, exactly at and just
\* beyond the limit
StTick ==
  /\ Advance({1, DEFAULT_MAX_AGE_MS - 1, DEFAULT_MAX_AGE_MS})
  /\ UNCHANGED <<stVars, dcVars, cbVars, rlVars, pvVars, tmVars, cfVars, cc_proc>>

DcTick ==
  /\ Advance({1, DISCOVERY_TTL_MS - 1, DISCOVERY_TTL_MS})
  /\ UNCHANGED <<stVars, dcVars, cbVars, rlVars, pvVars, tmVars, cfVars, cc_proc>>

\* the handler reads the clock once, in verifyState (line 85): time passing
\* while a request is in flight changes nothing, so it passes between requests
CbTick ==
  /\ cb.pc = "idle"
  /\ Advance({1, DEFAULT_MAX_AGE_MS})
  /\ UNCHANGED <<stVars, dcVars, cbVars, rlVars, pvVars, tmVars, cfVars, cc_proc>>

\* ------------------------------------------- state engine, as a pure function

NoCall == [done |-> FALSE, secret |-> 0, maxAgeMs |-> 0, at |-> 0, result |-> FALSE]

\* a caller obtains a state from generateState(secret)
StGenerate ==
  /\ \E secret \in Secrets : \E s \in generateState(secret) :
       /\ st_state' = s
       /\ st_origin' = [kind |-> "generated", secret |-> secret, at |-> now]
  /\ st_call' = NoCall
  /\ UNCHANGED <<clockVars, dcVars, cbVars, rlVars, pvVars, tmVars, cfVars, cc_proc>>

\* the nonce segment of a generated state is replaced, the rest kept
StTamperNonce ==
  /\ st_origin.kind = "generated"
  /\ LET parts == Split(st_state) IN
     \E seg \in (randomBytesHex \cup {ToBase36(t) : t \in {0, 1, DEFAULT_MAX_AGE_MS + 1}} \cup {<<>>, <<BANG>>}) :
       /\ seg # parts[2]
       /\ st_state' = Join(<<parts[1], seg, parts[3]>>)
  /\ st_origin' = [st_origin EXCEPT !.kind = "tampered_nonce", !.at = 0]
  /\ st_call' = NoCall
  /\ UNCHANGED <<clockVars, dcVars, cbVars, rlVars, pvVars, tmVars, cfVars, cc_proc>>

\* the timestamp segment of a generated state is replaced, the rest kept
StTamperTs ==
  /\ st_origin.kind = "generated"
  /\ LET parts == Split(st_state) IN
     \E seg \in (randomBytesHex \cup {ToBase36(t) : t \in {0, 1, DEFAULT_MAX_AGE_MS + 1}} \cup {<<>>, <<BANG>>}) :
       /\ seg # parts[1]
       /\ st_state' = Join(<<seg, parts[2], parts[3]>>)
  /\ st_origin' = [st_origin EXCEPT !.kind = "tampered_ts", !.at = 0]
  /\ st_call' = NoCall
  /\ UNCHANGED <<clockVars, dcVars, cbVars, rlVars, pvVars, tmVars, cfVars, cc_proc>>

\* segments of a generated state are dropped or one is added
StResegment ==
  /\ st_origin.kind = "generated"
  /\ LET parts == Split(st_state) IN
     \E s \in {parts[1], Join(<<parts[1], parts[2]>>), Join(<<parts[1], parts[3]>>),
               Join(parts \o <<parts[3]>>), Join(parts \o << <<>> >>), <<>>} :
       st_state' = s
  /\ st_origin' = [st_origin EXCEPT !.kind = "resegmented", !.at = 0]
  /\ st_call' = NoCall
  /\ UNCHANGED <<clockVars, dcVars, cbVars, rlVars, pvVars, tmVars, cfVars, cc_proc>>

\* a three-segment state with any timestamp segment, signed with a secret
StCraft ==
  /\ \E secret \in Secrets : \E ts \in ({ToBase36(t) : t \in {0, 1, DEFAULT_MAX_AGE_MS + 1}} \cup {<<>>, <<BANG>>, <<1, BANG>>}) : \E nonce \in randomBytesHex :
       LET payload == Join(<<ts, nonce>>) IN
       /\ st_state' = Join(<<payload, createHmac(secret, payload)>>)
       /\ st_origin' = [kind |-> "signed", secret |-> secret, at |-> 0]
  /\ st_call' = NoCall
  /\ UNCHANGED <<clockVars, dcVars, cbVars, rlVars, pvVars, tmVars, cfVars, cc_proc>>

\* verifyState(st_state, secret, maxAgeMs) is called
StVerify ==
  /\ st_origin.kind # "none"
  /\ \E secret \in Secrets : \E maxAgeMs \in {-1, 0, DEFAULT_MAX_AGE_MS} :
       st_call' = [done |-> TRUE, secret |-> secret, maxAgeMs |-> maxAgeMs, at |-> now,
                   result |-> verifyState(st_state, secret, maxAgeMs)]
  /\ UNCHANGED <<st_state, st_origin>>
  /\ UNCHANGED <<clockVars, dcVars, cbVars, rlVars, pvVars, tmVars, cfVars, cc_proc>>

InitState ==
  /\ now = 0
  /\ ticks = 0
  /\ CfIdle
  /\ CcIdle
  /\ st_state = <<>>
  /\ st_origin = [kind |-> "none", secret |-> 0, at |-> 0]
  /\ st_call = NoCall
  /\ DcIdle
  /\ CbIdle
  /\ RlIdle
  /\ PvIdle
  /\ TmIdle

NextState ==
  \/ StTick
  \/ StGenerate
  \/ StTamperNonce
  \/ StTamperTs
  \/ StResegment
  \/ StCraft
  \/ StVerify

SpecState == InitState /\ [][NextState]_vars

\* helpers for the statements about verifyState
StParts == Split(st_state)
StWellSigned(secret) ==
  /\ Len(StParts) = 3
  /\ StParts[3] = createHmac(secret, Join(<<StParts[1], StParts[2]>>))
StTimestamp == parseInt36(StParts[1])

\* C7: a state returned by generateState(secret) and verified with the same
\* secret no later than maxAgeMs after its generation is accepted.
C7_FreshStateVerifies ==
  (st_call.done /\ st_origin.kind = "generated" /\ st_call.secret = st_origin.secret
     /\ st_call.at - st_origin.at <= st_call.maxAgeMs)
  => st_call.result = TRUE

C7_Witness ==
  /\ st_call.done /\ st_origin.kind = "generated" /\ st_call.secret = st_origin.secret
  /\ st_call.maxAgeMs = DEFAULT_MAX_AGE_MS
  /\ st_call.at - st_origin.at = DEFAULT_MAX_AGE_MS
  /\ st_call.result = TRUE

\* C8: verifyState returns a boolean, and returns false for every state that
\* is not three dot-separated segments whose third is the signature of the
\* first two under the verifying secret; a generated state is rejected under
\* a different secret, and after its nonce or timestamp segment was replaced.
C8_RejectsUnsigned ==
  st_call.done =>
    /\ st_call.result \in BOOLEAN
    /\ ~StWellSigned(st_call.secret) => st_call.result = FALSE
    /\ (st_origin.kind = "generated" /\ st_call.secret # st_origin.secret)
         => st_call.result = FALSE
    /\ st_origin.kind \in {"tampered_nonce", "tampered_ts", "resegmented"}
         => st_call.result = FALSE

C8_Witness ==
  /\ st_call.done
  /\ st_origin.kind = "tampered_nonce"
  /\ st_call.secret = st_origin.secret
  /\ st_call.maxAgeMs = DEFAULT_MAX_AGE_MS
  /\ st_call.result = FALSE

\* C9 as stated: every accepted state has an age of at most maxAgeMs, a
\* well-signed state is rejected exactly when now - timestamp > maxAgeMs, and
\* every state verified against a negative maxAgeMs is rejected.
StExceeds == ~StTimestamp.nan /\ st_call.at - StTimestamp.val > st_call.maxAgeMs

C9_Original ==
  st_call.done =>
    /\ st_call.result = TRUE => ~StExceeds
    /\ StWellSigned(st_call.secret) => (st_call.result = FALSE <=> StExceeds)
    /\ st_call.maxAgeMs < 0 => st_call.result = FALSE

\* C9 (amended): every accepted state has an age of at most maxAgeMs, a
\* well-signed state is rejected exactly when now - timestamp > maxAgeMs, and
\* a state whose timestamp segment decodes to a number not later than now
\* (every state from generateState) is rejected against a negative maxAgeMs.
C9_AgeBound ==
  st_call.done =>
    /\ st_call.result = TRUE => ~StExceeds
    /\ StWellSigned(st_call.secret) => (st_call.result = FALSE <=> StExceeds)
    /\ (st_call.maxAgeMs < 0 /\ Len(StParts) >= 1 /\ ~StTimestamp.nan
          /\ StTimestamp.val <= st_call.at)
         => st_call.result = FALSE
    /\ (st_call.maxAgeMs < 0 /\ st_origin.kind = "generated") => st_call.result = FALSE

C9_Witness ==
  /\ st_call.done
  /\ st_origin.kind = "generated"
  /\ st_call.secret = st_origin.secret
  /\ st_call.at = st_origin.at
  /\ st_call.maxAgeMs < 0
  /\ st_call.result = FALSE

\* ------------------------------------------------------ getDiscovery, steps
\* entry of getDiscovery up to the first await: a fresh cache is returned,
\* otherwise the fetch is issued
DcEnter(c) ==
  /\ dc_call[c].pc = "idle"
  /\ dc_calls < MaxCalls
  /\ dc_calls' = dc_calls + 1
  /\ LET entry == [NoDcCall EXCEPT !.now = now, !.sawDoc = discoveryCache,
                                   !.sawTime = discoveryCacheTime]
     IN IF CacheFresh(now)
        THEN dc_call' = [dc_call EXCEPT ![c] =
               [entry EXCEPT !.pc = "done", !.result = "cached", !.doc = discoveryCache]]
        ELSE dc_call' = [dc_call EXCEPT ![c] = [entry EXCEPT !.pc = "fetching"]]
  /\ UNCHANGED <<discoveryCache, discoveryCacheTime, dc_fetched>>

\* line 332 storing the time at which the fetch ended
CacheStamp_late(c) == now

\* line 332: `now` is the local read at entry (line 311)
CacheStamp(c) == dc_call[c].now

\* the fetch answers with res.ok: the document and the time read at entry
\* replace the cache slot
DcFetchOk(c) ==
  /\ dc_call[c].pc = "fetching"
  /\ LET doc == [ok |-> TRUE, start |-> dc_call[c].now, by |-> c] IN
     /\ discoveryCache' = doc
     /\ discoveryCacheTime' = CacheStamp(c)
     /\ dc_call' = [dc_call EXCEPT ![c].pc = "done", ![c].result = "fetched",
                                   ![c].doc = doc]
     /\ dc_fetched' = dc_fetched \cup {doc}
  /\ UNCHANGED dc_calls

\* a failed fetch that drops the cached document
DcFetchFail_clear(c) ==
  /\ dc_call[c].pc = "fetching"
  /\ \E status \in {404, 500} :
       dc_call' = [dc_call EXCEPT ![c].pc = "done", ![c].result = "error",
                                  ![c].status = status]
  /\ discoveryCache' = NoDoc
  /\ discoveryCacheTime' = 0
  /\ UNCHANGED <<dc_calls, dc_fetched>>

\* the fetch answers with !res.ok: getDiscovery throws, naming the status
DcFetchFail(c) ==
  /\ dc_call[c].pc = "fetching"
  /\ \E status \in {404, 500} :
       dc_call' = [dc_call EXCEPT ![c].pc = "done", ![c].result = "error",
                                  ![c].status = status]
  /\ UNCHANGED <<discoveryCache, discoveryCacheTime, dc_calls, dc_fetched>>

\* the caller takes the result; it may call again
DcReturn(c) ==
  /\ dc_call[c].pc = "done"
  /\ dc_call' = [dc_call EXCEPT ![c] = NoDcCall]
  /\ UNCHANGED <<discoveryCache, discoveryCacheTime, dc_calls, dc_fetched>>

StIdle ==
  /\ st_state = <<>>
  /\ st_origin = [kind |-> "none", secret |-> 0, at |-> 0]
  /\ st_call = NoCall

InitDisc ==
  /\ now = 0
  /\ ticks = 0
  /\ CfIdle
  /\ CcIdle
  /\ StIdle
  /\ DcIdle
  /\ CbIdle
  /\ RlIdle
  /\ PvIdle
  /\ TmIdle

NextDisc ==
  \/ DcTick
  \/ \E c \in Callers :
       \/ DcEnter(c) /\ UNCHANGED <<clockVars, stVars, cbVars, rlVars, pvVars, tmVars, cfVars, cc_proc>>
       \/ DcFetchOk(c) /\ UNCHANGED <<clockVars, stVars, cbVars, rlVars, pvVars, tmVars, cfVars, cc_proc>>
       \/ DcFetchFail(c) /\ UNCHANGED <<clockVars, stVars, cbVars, rlVars, pvVars, tmVars, cfVars, cc_proc>>
       \/ DcReturn(c) /\ UNCHANGED <<clockVars, stVars, cbVars, rlVars, pvVars, tmVars, cfVars, cc_proc>>

SpecDisc == InitDisc /\ [][NextDisc]_vars

\* C10: a getDiscovery call returns the cached document only if a document
\* was cached at entry and now minus the cache timestamp was below the TTL;
\* in every other case it issues a fetch.  So no returned cached document was
\* fetched DISCOVERY_TTL_MS or longer before the call.
C10_NoStaleDiscovery ==
  \A c \in Callers :
    LET call == dc_call[c]
        fresh == call.sawDoc.ok /\ call.now - call.sawTime < DISCOVERY_TTL_MS
    IN call.pc # "idle" =>
         /\ call.result = "cached" =>
              /\ fresh
              /\ call.doc = call.sawDoc
              /\ call.now - call.doc.start < DISCOVERY_TTL_MS
         /\ ~fresh => (call.pc = "fetching" \/ call.result \in {"fetched", "error"})
         /\ fresh => call.result = "cached"

C10_Witness ==
  \E c \in Callers :
    /\ dc_call[c].pc = "fetching"
    /\ dc_call[c].sawDoc.ok
    /\ dc_call[c].now - dc_call[c].sawTime = DISCOVERY_TTL_MS

\* C11: a fetch that is answered with a non-success status makes getDiscovery
\* throw with that status and leaves _discoveryCache and _discoveryCacheTime
\* as they were; the two change only in the step in which a fetch succeeds,
\* and then both are set, to that fetch's document and entry time.
C11_FailKeepsCache ==
  [][ /\ \A c \in Callers :
           (dc_call[c].pc = "fetching" /\ dc_call'[c].result = "error") =>
             /\ dc_call'[c].status \in {404, 500}
             /\ discoveryCache' = discoveryCache
             /\ discoveryCacheTime' = discoveryCacheTime
      /\ (discoveryCache' # discoveryCache \/ discoveryCacheTime' # discoveryCacheTime) =>
           \E c \in Callers :
             /\ dc_call[c].pc = "fetching" /\ dc_call'[c].result = "fetched"
             /\ discoveryCache'.ok
             /\ discoveryCache' = dc_call'[c].doc
             /\ discoveryCacheTime' = dc_call[c].now ]_vars

C11_Witness ==
  \E c \in Callers :
    /\ dc_call[c].result = "error"
    /\ dc_call[c].status = 500
    /\ dc_call[c].sawDoc.ok
    /\ discoveryCache = dc_call[c].sawDoc
    /\ discoveryCacheTime = dc_call[c].sawTime

\* C12: however concurrent getDiscovery calls interleave, a caller that gets
\* a document gets one that a successful fetch produced, and the cache slot
\* is either empty or holds such a document with a timestamp that is not
\* later than the start of the fetch that produced it.
C12_RaceIsBenign ==
  /\ \A c \in Callers :
       dc_call[c].result \in {"cached", "fetched"} =>
         dc_call[c].doc.ok /\ dc_call[c].doc \in dc_fetched
  /\ \A c \in Callers : dc_call[c].result = "error" => ~dc_call[c].doc.ok
  /\ discoveryCache.ok =>
       /\ discoveryCache \in dc_fetched
       /\ discoveryCacheTime <= discoveryCache.start
  /\ ~discoveryCache.ok => dc_fetched = {}

C12_Witness ==
  \E c, d \in Callers :
    /\ dc_call[c].result = "fetched" /\ dc_call[d].result = "fetched"
    /\ dc_call[c].now < dc_call[d].now
    /\ dc_call[d].now < now
    /\ discoveryCache = dc_call[c].doc
    /\ dc_call[d].doc \in dc_fetched

\* ---------------------------------------------------------- callback, steps
\* the states a request can carry: none, the issued one, and the issued one
\* (or one for time 0) signed anew by someone who holds another secret than
\* the application's
StateValues ==
  LET parts == IF cb_issued.state = NullStr
               THEN <<ToBase36(0), CHOOSE n \in randomBytesHex : TRUE>>
               ELSE SubSeq(Split(cb_issued.state), 1, 2)
  IN {NullStr, cb_issued.state}
       \cup {Join(<<Join(parts), createHmac(secret, Join(parts))>>) :
               secret \in Secrets \ {AppSecret}}

\* the authorize endpoint issues a state and a nonce (authorize route, 47-50)
CbAuthorize ==
  /\ cb_issued = [state |-> NullStr, nonce |-> NullStr]
  /\ \E state \in generateState(AppSecret) : \E nonce \in generateNonce :
       cb_issued' = [state |-> state, nonce |-> nonce]
  /\ UNCHANGED <<cb_req, cb, cb_resp, cb_count, cb_accepted, cb_failed>>
  /\ UNCHANGED <<clockVars, stVars, dcVars, rlVars, pvVars, tmVars, cfVars, cc_proc>>

\* lines 36-94: a request arrives and is handled up to the call of exchangeCode;
\* cb.calls lists the calls the handler has made so far
CbRequest ==
  /\ cb.pc = "idle"
  /\ cb_count < MaxRequests
  /\ cb_count' = cb_count + 1
  /\ \E enabled \in BOOLEAN :
     \E code \in {NullStr, <<>>, <<12, 1>>} :
     \E error \in {NullStr, <<>>, <<14>>} :
     \E state \in StateValues :
     \E savedState \in StateValues :
     \E savedNonce \in ({NullStr, <<>>} \cup randomBytesHex) :
       LET req == [enabled |-> enabled, code |-> code, state |-> state, error |-> error,
                   savedState |-> savedState, savedNonce |-> savedNonce]
           start == [NoCb EXCEPT !.at = now]
       IN /\ cb_req' = req
          /\ IF ~enabled
             THEN /\ cb' = [start EXCEPT !.pc = "done"]
                  /\ cb_resp' = [kind |-> "login", error |-> "", set |-> {}, deleted |-> {}]
             ELSE IF Truthy(error)
             THEN /\ cb' = [start EXCEPT !.pc = "done", !.failed = "idp_error"]
                  /\ cb_resp' = ErrorRedirect("OIDC: <error_description or error>")
             ELSE IF ~Truthy(code) \/ ~Truthy(state)
             THEN /\ cb' = [start EXCEPT !.pc = "done", !.failed = "params"]
                  /\ cb_resp' = ErrorRedirect("Invalid OIDC callback: missing code or state")
             ELSE IF ~StateMatches(state, savedState)
             THEN /\ cb' = [start EXCEPT !.pc = "done", !.failed = "state_mismatch"]
                  /\ cb_resp' = ErrorRedirect("OIDC state mismatch - possible CSRF attack")
             ELSE IF ~verifyState(state, AppSecret, DEFAULT_MAX_AGE_MS)
             THEN /\ cb' = [start EXCEPT !.pc = "done", !.failed = "state_verify"]
                  /\ cb_resp' =
                       ErrorRedirect("OIDC state verification failed (expired or tampered)")
             ELSE /\ cb' = [start EXCEPT !.pc = "exchange", !.stateOk = TRUE,
                                         !.calls = <<"exchangeCode">>]
                  /\ cb_resp' = NoResp
  /\ UNCHANGED <<cb_issued, cb_accepted, cb_failed>>
  /\ UNCHANGED <<clockVars, stVars, dcVars, rlVars, pvVars, tmVars, cfVars, cc_proc>>

\* lines 94-105: exchangeCode answers; on success the id_token is decoded and
\* its nonce compared, then getUserInfo is called
CbExchange ==
  /\ cb.pc = "exchange"
  /\ \/ /\ cb' = [cb EXCEPT !.pc = "done", !.failed = "exchange"]
        /\ cb_resp' = ErrorRedirect("Token exchange failed (<status>): <body>")
     \/ \E idNonce \in ({NullStr, <<>>} \cup randomBytesHex) :
          LET got == [cb EXCEPT !.idNonce = idNonce]
          IN IF NonceMismatch(cb_req.savedNonce, idNonce)
             THEN /\ cb' = [got EXCEPT !.pc = "done", !.failed = "nonce"]
                  /\ cb_resp' = ErrorRedirect("OIDC nonce mismatch")
             ELSE /\ cb' = [got EXCEPT !.pc = "userinfo",
                                       !.calls = Append(@, "getUserInfo")]
                  /\ cb_resp' = cb_resp
  /\ UNCHANGED <<cb_issued, cb_req, cb_count, cb_accepted, cb_failed>>
  /\ UNCHANGED <<clockVars, stVars, dcVars, rlVars, pvVars, tmVars, cfVars, cc_proc>>

\* a handler that notes the failure of getUserInfo and goes on
CbUserInfo_goeson ==
  /\ cb.pc = "userinfo"
  /\ \/ /\ cb' = [cb EXCEPT !.pc = "provision", !.failed = "userinfo",
                            !.calls = Append(@, "findOrCreateOidcUser")]
        /\ cb_resp' = cb_resp
     \/ /\ cb' = [cb EXCEPT !.pc = "provision",
                            !.calls = Append(@, "findOrCreateOidcUser")]
        /\ cb_resp' = cb_resp
  /\ UNCHANGED <<cb_issued, cb_req, cb_count, cb_accepted, cb_failed>>
  /\ UNCHANGED <<clockVars, stVars, dcVars, rlVars, pvVars, tmVars, cfVars, cc_proc>>

\* lines 105-110: getUserInfo answers; on success findOrCreateOidcUser is called
CbUserInfo ==
  /\ cb.pc = "userinfo"
  /\ \/ /\ cb' = [cb EXCEPT !.pc = "done", !.failed = "userinfo"]
        /\ cb_resp' = ErrorRedirect("UserInfo request failed (<status>): <body>")
     \/ /\ cb' = [cb EXCEPT !.pc = "provision",
                            !.calls = Append(@, "findOrCreateOidcUser")]
        /\ cb_resp' = cb_resp
  /\ UNCHANGED <<cb_issued, cb_req, cb_count, cb_accepted, cb_failed>>
  /\ UNCHANGED <<clockVars, stVars, dcVars, rlVars, pvVars, tmVars, cfVars, cc_proc>>

\* the handler moves on to step `next`; step 8 builds the response at once
Goto(rec, next) ==
  IF next = "respond"
  THEN /\ cb' = [rec EXCEPT !.pc = "done"]
       /\ cb_resp' = CompleteRedirect
  ELSE /\ cb' = [rec EXCEPT !.pc = next]
       /\ cb_resp' = cb_resp

\* line 110: findOrCreateOidcUser answers with an account or throws
CbProvision ==
  /\ cb.pc = "provision"
  /\ \/ /\ cb' = [cb EXCEPT !.pc = "done", !.failed = "provision"]
        /\ cb_resp' = ErrorRedirect("OIDC user <name> (sub: <sub>) not found and auto-creation is disabled.")
     \/ \E user \in {"found", "created"} :
          Goto([cb EXCEPT !.user = user], StepAfter("provision"))
  /\ UNCHANGED <<cb_issued, cb_req, cb_count, cb_accepted, cb_failed>>
  /\ UNCHANGED <<clockVars, stVars, dcVars, rlVars, pvVars, tmVars, cfVars, cc_proc>>

\* lines 117-123: the import and applyTeamMappings return or throw
CbTeam ==
  /\ cb.pc = "team"
  /\ \E outcome \in {"synced", "redis_off", "store_or_member_error"} \cup TeamThrows :
       LET calls == IF outcome = "not_installed" THEN cb.calls
                    ELSE Append(cb.calls, "applyTeamMappings")
           rec == [cb EXCEPT !.team = outcome, !.calls = calls]
       IN IF TeamCatch(outcome) = "rethrow"
          THEN /\ cb' = [rec EXCEPT !.pc = "done", !.failed = "team"]
               /\ cb_resp' = ErrorRedirect("OIDC authentication failed")
          ELSE Goto(rec, StepAfter("team"))
  /\ UNCHANGED <<cb_issued, cb_req, cb_count, cb_accepted, cb_failed>>
  /\ UNCHANGED <<clockVars, stVars, dcVars, rlVars, pvVars, tmVars, cfVars, cc_proc>>

\* lines 125-144: the token is made by saveAuth (Redis) or createSecureToken
CbToken ==
  /\ cb.pc = "token"
  /\ \E redis \in BOOLEAN :
       Goto([cb EXCEPT !.calls = Append(@, IF redis THEN "saveAuth" ELSE "createSecureToken")],
            StepAfter("token"))
  /\ UNCHANGED <<cb_issued, cb_req, cb_count, cb_accepted, cb_failed>>
  /\ UNCHANGED <<clockVars, stVars, dcVars, rlVars, pvVars, tmVars, cfVars, cc_proc>>

\* the response is sent; the handler keeps nothing but what the request did
CbDone ==
  /\ cb.pc = "done"
  /\ cb_accepted' = IF cb.stateOk THEN cb_accepted \cup {cb_req.state} ELSE cb_accepted
  /\ cb_failed' = IF cb.failed # "none" /\ Truthy(cb_req.state)
                  THEN cb_failed \cup {cb_req.state} ELSE cb_failed
  /\ cb' = NoCb
  /\ cb_req' = [enabled |-> FALSE, code |-> NullStr, state |-> NullStr,
                error |-> NullStr, savedState |-> NullStr, savedNonce |-> NullStr]
  /\ cb_resp' = NoResp
  /\ UNCHANGED <<cb_issued, cb_count>>
  /\ UNCHANGED <<clockVars, stVars, dcVars, rlVars, pvVars, tmVars, cfVars, cc_proc>>

Init ==
  /\ now = 0
  /\ ticks = 0
  /\ CfIdle
  /\ CcIdle
  /\ StIdle
  /\ DcIdle
  /\ CbIdle
  /\ RlIdle
  /\ PvIdle
  /\ TmIdle

Next ==
  \/ CbTick
  \/ CbAuthorize
  \/ CbRequest
  \/ CbExchange
  \/ CbUserInfo
  \/ CbProvision
  \/ CbTeam
  \/ CbToken
  \/ CbDone

Spec == Init /\ [][Next]_vars

\* ------------------------------------------------- statements on the callback
Called(name) == \E i \in 1..Len(cb.calls) : cb.calls[i] = name
IndexOf(name) == CHOOSE i \in 1..Len(cb.calls) : cb.calls[i] = name
TokenCalls == {"saveAuth", "createSecureToken"}
TokenCreated == \E name \in TokenCalls : Called(name)

\* what verifyState(state, AppSecret) requires, at the time of the request
\* (the clock stands still while a request is handled)
SignedAndFresh(state) ==
  LET parts == Split(state) IN
  /\ Len(parts) = 3
  /\ parts[3] = createHmac(AppSecret, parts[1] \o <<DOT>> \o parts[2])
  /\ LET ts == parseInt36(parts[1]) IN
     ts.nan \/ now - ts.val <= DEFAULT_MAX_AGE_MS

\* C1: the session cookie and the bridge cookie are set only if, in the same
\* request, OIDC was enabled, code and state were present, state equalled
\* the oidc_state cookie, the state verified, and token exchange, userinfo
\* fetch and provisioning succeeded.
C1_SessionOnlyAfterChecks ==
  cb_resp.set # {} =>
    /\ cb_req.enabled
    /\ Truthy(cb_req.code) /\ Truthy(cb_req.state)
    /\ cb_req.state = cb_req.savedState
    /\ SignedAndFresh(cb_req.state)
    /\ Called("exchangeCode") /\ Called("getUserInfo") /\ Called("findOrCreateOidcUser")
    /\ cb.failed = "none" /\ cb.user # "none"

C1_Witness ==
  /\ cb_resp.set = AuthCookies
  /\ cb_req.state = cb_issued.state
  /\ cb_accepted = {}

\* a step from parameter validation to provisioning failed in this request
CbStepFailed ==
  \/ Truthy(cb_req.error)
  \/ ~Truthy(cb_req.code) \/ ~Truthy(cb_req.state)
  \/ cb_req.state # cb_req.savedState
  \/ ~SignedAndFresh(cb_req.state)
  \/ cb.failed \in {"exchange", "userinfo", "provision"}
  \/ /\ cb.idNonce # NullStr /\ cb.idNonce # <<>>
     /\ cb_req.savedNonce # NullStr /\ cb_req.savedNonce # <<>>
     /\ cb.idNonce # cb_req.savedNonce

\* C2: a callback with OIDC enabled in which a step from parameter validation
\* to provisioning fails ends in a redirect to the login page with an error
\* message, and sets neither the session cookie nor the bridge cookie.
C2_FailureRedirects ==
  (cb.pc = "done" /\ cb_req.enabled /\ CbStepFailed) =>
    /\ cb_resp.kind = "login"
    /\ cb_resp.error # ""
    /\ cb_resp.set = {}

C2_Witness ==
  /\ cb.pc = "done" /\ cb_req.enabled
  /\ cb.failed = "userinfo"
  /\ cb_resp.kind = "login"

\* C3 as stated: a state that a callback accepted is accepted by no later
\* callback, and a state presented in a failed callback is not presented
\* again with success.
C3_Original ==
  (cb.pc # "idle" /\ cb.stateOk) =>
    /\ cb_req.state \notin cb_accepted
    /\ cb_resp.kind = "complete" => cb_req.state \notin cb_failed

\* C3 (amended): the handler keeps no record of used states.  Whatever was
\* accepted or rejected before, a state passes the check exactly when it
\* equals the oidc_state cookie and verifies at that time; the response of a
\* successful callback deletes the three OIDC cookies, that of a failed one
\* deletes none.
C3_StateReusable ==
  (cb.pc = "done" /\ cb_req.enabled /\ ~Truthy(cb_req.error) /\ Truthy(cb_req.code)) =>
    /\ cb.stateOk <=> (/\ Truthy(cb_req.state)
                       /\ cb_req.state = cb_req.savedState
                       /\ SignedAndFresh(cb_req.state))
    /\ cb_resp.kind = "complete" => cb_resp.deleted = OidcCookies
    /\ cb_resp.kind = "login" => cb_resp.deleted = {}

C3_Witness ==
  /\ cb.pc = "done"
  /\ cb_resp.kind = "complete"
  /\ cb_resp.deleted = OidcCookies
  /\ cb_req.state \in cb_accepted
  /\ cb_req.state \in cb_failed

\* C4 as stated: when the oidc_nonce cookie is present and the identity token
\* carries a nonce claim, the login completes only if they are equal, and if
\* they differ neither getUserInfo nor findOrCreateOidcUser is called.
C4_Original ==
  (cb_req.savedNonce # NullStr /\ cb.idNonce # NullStr) =>
    /\ cb_resp.kind = "complete" => cb.idNonce = cb_req.savedNonce
    /\ cb.idNonce # cb_req.savedNonce =>
         ~Called("getUserInfo") /\ ~Called("findOrCreateOidcUser")

\* C4 (amended): when the oidc_nonce cookie and the identity token's nonce
\* claim are both non-empty, the login completes only if they are equal, and
\* if they differ neither getUserInfo nor findOrCreateOidcUser is called.
C4_NonceChecked ==
  (Truthy(cb_req.savedNonce) /\ Truthy(cb.idNonce)) =>
    /\ cb_resp.kind = "complete" => cb.idNonce = cb_req.savedNonce
    /\ cb.idNonce # cb_req.savedNonce =>
         /\ ~Called("getUserInfo") /\ ~Called("findOrCreateOidcUser")
         /\ cb.pc = "done" /\ cb_resp.kind = "login" /\ cb.user = "none"

C4_Witness ==
  /\ Truthy(cb_req.savedNonce) /\ Truthy(cb.idNonce)
  /\ cb.idNonce # cb_req.savedNonce
  /\ cb.pc = "done"
  /\ Called("exchangeCode")

C6_Original ==
  (cb_resp.kind = "complete" /\ Called("applyTeamMappings")) =>
    \E name \in TokenCalls :
      Called(name) /\ IndexOf(name) < IndexOf("applyTeamMappings")

\* C6 (amended): in a successful callback team synchronization is performed
\* after user provisioning and before the session token is created: when
\* applyTeamMappings is invoked no token exists yet, and the token is created
\* only after the team step has ended.
C6_TeamBeforeToken ==
  /\ Called("applyTeamMappings") =>
       /\ Called("findOrCreateOidcUser")
       /\ IndexOf("findOrCreateOidcUser") < IndexOf("applyTeamMappings")
       /\ \A name \in TokenCalls :
            Called(name) => IndexOf("applyTeamMappings") < IndexOf(name)
  /\ TokenCreated => cb.team # "none"

C6_Witness ==
  /\ cb_resp.kind = "complete"
  /\ Called("applyTeamMappings")
  /\ TokenCreated

\* ------------------------------------------------- role mapper (mapOidcRole)
SeqsUpTo(S, n) == UNION {[1..k -> S] : k \in 0..n}

\* the values a role claim can have: strings over 'a', 'b', the comma and
\* the blank, arrays of a few such strings, and values of the other types
ClaimValues ==
  {Undefined, [t |-> "null", s |-> <<>>, a |-> <<>>, n |-> 0],
   [t |-> "object", s |-> <<>>, a |-> <<>>, n |-> 0],
   Num(0), Num(1), Bool(0), Bool(1)}
    \cup {Str(x) : x \in SeqsUpTo({10, 11, COMMA, SPACE}, MaxClaimLen)}
    \cup {Arr(x) : x \in SeqsUpTo({<<>>, <<10>>, <<11>>, <<SPACE, 10>>,
                                     <<10, COMMA, 11>>}, MaxArrayLen)}

\* String.prototype.split(sep)
RECURSIVE SplitBy(_, _)
SplitBy(s, sep) ==
  IF \A i \in 1..Len(s) : s[i] # sep
  THEN <<s>>
  ELSE LET i == CHOOSE j \in 1..Len(s) :
                  s[j] = sep /\ \A k \in 1..(j - 1) : s[k] # sep
       IN <<SubSeq(s, 1, i - 1)>> \o SplitBy(SubSeq(s, i + 1, Len(s)), sep)

\* String.prototype.trim()
RECURSIVE trim(_)
trim(s) ==
  IF s # <<>> /\ Head(s) = SPACE THEN trim(Tail(s))
  ELSE IF s # <<>> /\ s[Len(s)] = SPACE THEN trim(SubSeq(s, 1, Len(s) - 1))
  ELSE s

\* Array.prototype.includes
includes(arr, x) == \E i \in 1..Len(arr) : arr[i] = x

\* a ?? b
Coalesce(a, b) == IF a.t \in {"undefined", "null"} THEN b ELSE a

\* !v
Falsy(v) ==
  \/ v.t \in {"undefined", "null"}
  \/ v.t = "string" /\ v.s = <<>>
  \/ v.t \in {"number", "boolean"} /\ v.n = 0

\* mapOidcRole without the trim of line 504
mapOidcRole_notrim(userInfo, idTokenClaims, adminGroup) ==
  LET claimValue == Coalesce(userInfo.roleClaim, idTokenClaims.roleClaim) IN
  IF Falsy(claimValue) THEN "user"
  ELSE IF claimValue.t = "array"
    THEN IF includes(claimValue.a, adminGroup) THEN "admin" ELSE "user"
  ELSE IF claimValue.t = "string"
    THEN IF claimValue.s = adminGroup THEN "admin"
         ELSE IF includes(SplitBy(claimValue.s, COMMA), adminGroup) THEN "admin"
         ELSE "user"
  ELSE "user"

\* mapOidcRole(userInfo, idTokenClaims), with cfg.adminGroup as a parameter;
\* roleClaim is the entry of the record under cfg.roleClaim
mapOidcRole(userInfo, idTokenClaims, adminGroup) ==
  LET claimValue == Coalesce(userInfo.roleClaim, idTokenClaims.roleClaim) IN
  IF Falsy(claimValue) THEN "user"
  ELSE IF claimValue.t = "array"
    THEN IF includes(claimValue.a, adminGroup) THEN "admin" ELSE "user"
  ELSE IF claimValue.t = "string"
    THEN IF claimValue.s = adminGroup THEN "admin"
         ELSE LET parts == SplitBy(claimValue.s, COMMA)
                  trimmed == [i \in 1..Len(parts) |-> trim(parts[i])]
              IN IF includes(trimmed, adminGroup) THEN "admin" ELSE "user"
  ELSE "user"

\* one call; OIDC_ADMIN_GROUP is any string the environment holds, the empty
\* one included
RlCall ==
  /\ rl_call.pc = "idle"
  /\ \E u \in ClaimValues, t \in ClaimValues,
        g \in {<<>>, <<10>>, <<SPACE, 10>>, <<10, COMMA, 11>>} :
       rl_call' = [pc |-> "done",
                   userInfo |-> [roleClaim |-> u],
                   idTokenClaims |-> [roleClaim |-> t],
                   adminGroup |-> g,
                   result |-> mapOidcRole([roleClaim |-> u], [roleClaim |-> t], g)]
  /\ UNCHANGED <<clockVars, stVars, dcVars, cbVars, pvVars, tmVars, cfVars, cc_proc>>

RlReturn ==
  /\ rl_call.pc = "done"
  /\ rl_call' = NoRlCall
  /\ UNCHANGED <<clockVars, stVars, dcVars, cbVars, pvVars, tmVars, cfVars, cc_proc>>

InitRole ==
  /\ now = 0
  /\ ticks = 0
  /\ CfIdle
  /\ CcIdle
  /\ StIdle
  /\ DcIdle
  /\ CbIdle
  /\ RlIdle
  /\ PvIdle
  /\ TmIdle

NextRole ==
  \/ RlCall
  \/ RlReturn

SpecRole == InitRole /\ [][NextRole]_vars

\* the value the claim speaks of: the one of userInfo, or the one of the
\* id-token claims when userInfo has none
RlValue ==
  IF rl_call.userInfo.roleClaim.t \in {"undefined", "null"}
  THEN rl_call.idTokenClaims.roleClaim
  ELSE rl_call.userInfo.roleClaim

\* e with the blanks at both ends removed is g
TrimsTo(e, g) ==
  /\ g = <<>> \/ (g[1] # SPACE /\ g[Len(g)] # SPACE)
  /\ \E i \in 1..(Len(e) + 1) :
       /\ i + Len(g) - 1 <= Len(e)
       /\ SubSeq(e, i, i + Len(g) - 1) = g
       /\ \A k \in 1..Len(e) : (k < i \/ k > i + Len(g) - 1) => e[k] = SPACE

\* g is one trimmed element of the comma-split of s
IsElement(s, g) ==
  \E i \in 1..(Len(s) + 1), j \in 0..Len(s) :
    /\ i <= j + 1
    /\ i = 1 \/ s[i - 1] = COMMA
    /\ j = Len(s) \/ s[j + 1] = COMMA
    /\ \A k \in i..j : s[k] # COMMA
    /\ TrimsTo(SubSeq(s, i, j), g)

InAdminGroup(v, g) ==
  \/ v.t = "array" /\ \E i \in 1..Len(v.a) : v.a[i] = g
  \/ v.t = "string" /\ (v.s = g \/ IsElement(v.s, g))

\* C13, as stated: the result is 'admin' or 'user', and 'admin' exactly when
\* the role claim is an array containing the admin group or a string that
\* equals it or has it as a trimmed element of its comma-split.
C13_Original ==
  rl_call.pc = "done" =>
    /\ rl_call.result \in {"admin", "user"}
    /\ rl_call.result = "admin" <=> InAdminGroup(RlValue, rl_call.adminGroup)

\* C13: the result is 'admin' or 'user', and 'admin' exactly when the role
\* claim is an array containing the admin group or a non-empty string that
\* equals it or has it as a trimmed element of its comma-split; an absent
\* claim, an empty string and every other type give 'user'.
C13_RoleMapping ==
  rl_call.pc = "done" =>
    /\ rl_call.result \in {"admin", "user"}
    /\ rl_call.result = "admin" <=>
         /\ InAdminGroup(RlValue, rl_call.adminGroup)
         /\ RlValue # Str(<<>>)

C13_Witness ==
  /\ rl_call.pc = "done"
  /\ rl_call.userInfo.roleClaim = Undefined
  /\ rl_call.idTokenClaims.roleClaim = Str(<<COMMA, SPACE, 10>>)
  /\ rl_call.adminGroup = <<10>>
  /\ rl_call.result = "admin"

\* ------------------------------------------- provisioning (findOrCreateOidcUser)
\* the upper-case letter of the letter c
Upper(c) == c + 40

\* String.prototype.toLowerCase()
toLowerCase(s) ==
  [i \in 1..Len(s) |-> IF s[i] \in Upper(10)..Upper(35) THEN s[i] - 40 ELSE s[i]]

\* the template `oidc:${sub}`
OidcPrefix == <<24, 18, 13, 12, SPACE + 1>>

ProvAdminGroup == <<10>>

\* buildOidcUsername(sub, preferredUsername, email)
buildOidcUsername(sub, preferredUsername, email) ==
  IF Truthy(preferredUsername) THEN trim(toLowerCase(preferredUsername))
  ELSE IF Truthy(email) THEN trim(toLowerCase(email))
  ELSE OidcPrefix \o sub

\* the usernames of the OR of the lookup
LookupNames(userInfo) ==
  {buildOidcUsername(userInfo.sub, userInfo.preferred_username, userInfo.email)}
    \cup (IF Truthy(userInfo.email) THEN {userInfo.email} ELSE {})
    \cup (IF Truthy(userInfo.preferred_username)
          THEN {userInfo.preferred_username} ELSE {})

\* what findFirst may return: it has no orderBy, so any matching row, and 0
\* for null when no row matches
findFirst(users, names) ==
  LET matching == {i \in 1..Len(users) : users[i].username \in names}
  IN IF matching = {} THEN {0} ELSE matching

\* a role update that never lowers an admin
WithRole_raiseonly(users, id, role) ==
  IF users[id].role = "admin" THEN users ELSE [users EXCEPT ![id].role = role]

\* user.update({ where: { id }, data: { role } })
WithRole(users, id, role) == [users EXCEPT ![id].role = role]

\* a rename that the unique index does not stop
WithUsername_force(users, id, username) == [users EXCEPT ![id].username = username]

\* a rename that takes the username from the account that holds it
WithUsername_take(users, id, username) ==
  [i \in 1..Len(users) |->
     IF i = id THEN [users[i] EXCEPT !.username = username]
     ELSE IF users[i].username = username
       THEN [users[i] EXCEPT !.username = OidcPrefix \o username]
     ELSE users[i]]

\* user.update({ where: { id }, data: { username } }) inside the try: the
\* unique index rejects a taken username and the catch keeps the table
WithUsername(users, id, username) ==
  IF \E j \in 1..Len(users) : j # id /\ users[j].username = username
  THEN users
  ELSE [users EXCEPT ![id].username = username]

toProvisionedUser(user) ==
  [id |-> user.id, username |-> user.username, role |-> user.role,
   isAdmin |-> user.role = "admin"]

\* the branch of line 163 taken also when auto-create is disabled
MayCreate_always(autoCreate) == TRUE

\* !cfg.autoCreate, line 163
MayCreate(autoCreate) == autoCreate

\* findOrCreateOidcUser(userInfo, idTokenClaims) on the table users, with
\* pick the row findFirst returned
findOrCreateOidcUser(users, userInfo, idTokenClaims, autoCreate, pick) ==
  LET umamiRole == mapOidcRole(userInfo, idTokenClaims, ProvAdminGroup)
      oidcUsername == buildOidcUsername(userInfo.sub, userInfo.preferred_username,
                                        userInfo.email)
      \* name ?? preferredUsername ?? email ?? oidcSub
      displayName ==
        IF userInfo.name # NullStr THEN userInfo.name
        ELSE IF userInfo.preferred_username # NullStr
          THEN userInfo.preferred_username
        ELSE IF userInfo.email # NullStr THEN userInfo.email
        ELSE userInfo.sub
      failed == [users |-> users, kind |-> "error",
                 user |-> [id |-> 0, username |-> <<>>, role |-> "none", isAdmin |-> FALSE],
                 errName |-> displayName, errSub |-> userInfo.sub]
  IN IF pick # 0
     THEN LET u1 == IF users[pick].role # umamiRole
                    THEN WithRole(users, pick, umamiRole) ELSE users
              u2 == IF u1[pick].username # oidcUsername
                    THEN WithUsername(u1, pick, oidcUsername) ELSE u1
          IN [failed EXCEPT !.users = u2, !.kind = "ok",
                            !.user = toProvisionedUser(u2[pick]),
                            !.errName = <<>>, !.errSub = <<>>]
     ELSE IF ~MayCreate(autoCreate) THEN failed
     ELSE LET newUser == [id |-> Len(users) + 1, username |-> oidcUsername,
                          role |-> umamiRole]
          IN [failed EXCEPT !.users = Append(users, newUser), !.kind = "ok",
                            !.user = toProvisionedUser(newUser),
                            !.errName = <<>>, !.errSub = <<>>]

\* one call of findOrCreateOidcUser from step 6 of the callback
PvCall(userInfo, idTokenClaims, autoCreate, repeat) ==
  /\ pv_logins < MaxLogins
  /\ pv_logins' = pv_logins + 1
  /\ \E pick \in findFirst(pv_users, LookupNames(userInfo)) :
       LET r == findOrCreateOidcUser(pv_users, userInfo, idTokenClaims,
                                     autoCreate, pick)
       IN /\ pv_users' = r.users
          /\ pv_call' = [pc |-> "returned", userInfo |-> userInfo,
                         idTokenClaims |-> idTokenClaims, autoCreate |-> autoCreate,
                         before |-> pv_users, pick |-> pick,
                         kind |-> r.kind, user |-> r.user,
                         errName |-> r.errName, errSub |-> r.errSub,
                         session |-> "none", repeat |-> repeat,
                         prevKind |-> pv_call.kind, prevId |-> pv_call.user.id]

\* a first login on the table as it stands, with the claims an identity
\* provider sends: "a" or "A " as preferred username, "E" as email, "n" as name
PvLogin ==
  /\ pv_call.pc = "idle"
  /\ \E userInfo \in [sub : {<<1>>}, name : {NullStr, <<23>>},
                       preferred_username : {NullStr, <<10>>, <<Upper(10), SPACE>>},
                       email : {NullStr, <<Upper(14)>>}, roleClaim : {Undefined, Str(ProvAdminGroup)}],
        idTokenClaims \in [roleClaim : {Undefined, Str(ProvAdminGroup)}], autoCreate \in BOOLEAN :
       PvCall(userInfo, idTokenClaims, autoCreate, FALSE)
  /\ UNCHANGED <<clockVars, stVars, dcVars, cbVars, rlVars, tmVars, cfVars, cc_proc>>

\* the same user logs in again: identical claims, same configuration
PvRepeat ==
  /\ pv_call.pc = "done"
  /\ PvCall(pv_call.userInfo, pv_call.idTokenClaims, pv_call.autoCreate, TRUE)
  /\ UNCHANGED <<clockVars, stVars, dcVars, cbVars, rlVars, tmVars, cfVars, cc_proc>>

\* another identity logs in after the first: another sub, the same names
PvOther ==
  /\ pv_call.pc = "done"
  /\ pv_call.userInfo.sub = <<1>>
  /\ ~pv_call.repeat
  /\ PvCall([pv_call.userInfo EXCEPT !.sub = <<2>>], pv_call.idTokenClaims,
            pv_call.autoCreate, FALSE)
  /\ UNCHANGED <<clockVars, stVars, dcVars, cbVars, rlVars, tmVars, cfVars, cc_proc>>

\* steps 7 and 8 of the callback after the call returned, or its catch
\* after the call threw
PvSession ==
  /\ pv_call.pc = "returned"
  /\ pv_call' = [pv_call EXCEPT !.pc = "done",
                   !.session = IF pv_call.kind = "ok" THEN "created" ELSE "refused"]
  /\ UNCHANGED <<pv_users, pv_logins>>
  /\ UNCHANGED <<clockVars, stVars, dcVars, cbVars, rlVars, tmVars, cfVars, cc_proc>>

InitProv ==
  /\ now = 0
  /\ ticks = 0
  /\ CfIdle
  /\ CcIdle
  /\ StIdle
  /\ DcIdle
  /\ CbIdle
  /\ RlIdle
  \* the user tables a first login can find: usernames "a", "A ", "e", "E"
  \* and "oidc:1", each at most once since username is unique
  /\ pv_users \in
       LET names == {<<10>>, <<Upper(10), SPACE>>, <<14>>, <<Upper(14)>>,
                     OidcPrefix \o <<1>>}
           roles == {"admin", "user", "view-only"}
           rows == UNION {[1..k -> names \X roles] : k \in 0..MaxInitUsers}
           unique(r) == \A i, j \in 1..Len(r) : r[i][1] = r[j][1] => i = j
       IN {[i \in 1..Len(r) |-> [id |-> i, username |-> r[i][1], role |-> r[i][2]]] :
             r \in {x \in rows : unique(x)}}
  /\ pv_call = NoPvCall
  /\ pv_logins = 0
  /\ TmIdle

NextProv ==
  \/ PvLogin
  \/ PvRepeat
  \/ PvOther
  \/ PvSession

SpecProv == InitProv /\ [][NextProv]_vars

\* ------------------------------------------------ provisioning, statements
PvRole == mapOidcRole(pv_call.userInfo, pv_call.idTokenClaims, ProvAdminGroup)

\* the accounts of the table before the call that the lookup matches
PvMatched ==
  {i \in 1..Len(pv_call.before) :
     pv_call.before[i].username \in LookupNames(pv_call.userInfo)}

PvReturned == pv_call.pc # "idle" /\ pv_call.kind = "ok"

\* C14: after a successful provisioning the stored role of the returned
\* account and the returned role are the role mapOidcRole computes from the
\* claims of the call, isAdmin says whether that role is admin, and this
\* holds also for a found account that was admin before.
C14_RoleSynced ==
  PvReturned =>
    /\ pv_call.user.id \in 1..Len(pv_users)
    /\ pv_users[pv_call.user.id].id = pv_call.user.id
    /\ pv_users[pv_call.user.id].role = PvRole
    /\ pv_call.user.role = PvRole
    /\ pv_call.user.isAdmin <=> (PvRole = "admin")

C14_Witness ==
  /\ PvReturned
  /\ pv_call.user.id \in PvMatched
  /\ pv_call.before[pv_call.user.id].role = "admin"
  /\ pv_users[pv_call.user.id].role = "user"
  /\ pv_call.user.role = "user"
  /\ ~pv_call.user.isAdmin

\* C15: when no account matches the lookup and auto-create is disabled, the
\* call throws an error that names the display name and the subject, the
\* user table is as before, and the callback creates no session.
C15_NoAutoCreate ==
  (pv_call.pc # "idle" /\ PvMatched = {} /\ ~pv_call.autoCreate) =>
    /\ pv_call.kind = "error"
    /\ pv_call.errSub = pv_call.userInfo.sub
    /\ pv_call.errName \in {pv_call.userInfo.name, pv_call.userInfo.preferred_username,
                             pv_call.userInfo.email, pv_call.userInfo.sub} \ {NullStr}
    /\ pv_call.userInfo.name # NullStr => pv_call.errName = pv_call.userInfo.name
    /\ pv_users = pv_call.before
    /\ pv_call.session # "created"
    /\ pv_call.pc = "done" => pv_call.session = "refused"

C15_Witness ==
  /\ pv_call.pc = "done"
  /\ PvMatched = {}
  /\ ~pv_call.autoCreate
  /\ Len(pv_users) = MaxInitUsers
  /\ pv_call.errName = pv_call.userInfo.email
  /\ pv_call.session = "refused"

\* C16, as stated: a second call with the same claims, and no other change
\* of the table in between, returns the account id the first call returned
\* and creates no account.
C16_Original ==
  (pv_call.pc # "idle" /\ pv_call.repeat /\ pv_call.prevKind = "ok"
     /\ pv_call.kind = "ok") =>
    /\ pv_call.user.id = pv_call.prevId
    /\ Len(pv_users) = Len(pv_call.before)

\* C17: a call deletes no record and changes nothing but username and role
\* of one account, which the lookup matched; when no account matches and
\* auto-create is enabled exactly one account is added, with the derived
\* username and the computed role, and otherwise none is added.
C17_StoreFootprint ==
  pv_call.pc # "idle" =>
    LET before == pv_call.before
        changed == {i \in 1..Len(before) : pv_users[i] # before[i]}
    IN /\ Len(pv_users) >= Len(before)
       /\ \A i \in 1..Len(before) : pv_users[i].id = before[i].id
       /\ Cardinality(changed) <= 1
       /\ changed \subseteq PvMatched
       /\ IF PvMatched = {} /\ pv_call.autoCreate
          THEN /\ Len(pv_users) = Len(before) + 1
               /\ pv_users[Len(pv_users)].username =
                    buildOidcUsername(pv_call.userInfo.sub,
                                      pv_call.userInfo.preferred_username,
                                      pv_call.userInfo.email)
               /\ pv_users[Len(pv_users)].role = PvRole
               /\ pv_users[Len(pv_users)].id \notin {before[i].id : i \in 1..Len(before)}
          ELSE Len(pv_users) = Len(before)

C17_Witness ==
  /\ pv_call.pc = "done"
  /\ PvMatched = {}
  /\ pv_call.autoCreate
  /\ Len(pv_call.before) = MaxInitUsers
  /\ Len(pv_users) = MaxInitUsers + 1
  /\ pv_users[Len(pv_users)].username = <<10>>
  /\ pv_call.userInfo.preferred_username = <<Upper(10), SPACE>>
  /\ pv_users[Len(pv_users)].role = "admin"

\* --------------------------------------- team sync (processOidcTeamMappings)
LoginUser == 1

\* the mappings POST /team-rules can have stored: per team up to MaxRules
\* rules for the value "a" or "b", with ids unique over the mapping
InitRuleMaps ==
  LET lists == UNION {[1..k -> [claimField : Fields, claimValue : {<<10>>, <<11>>},
                                teamRole : {"team_member", "team_owner"}]] :
                        k \in 0..MaxRules}
      WithIds(m) ==
        [t \in TeamIds |->
           [i \in 1..Len(m[t]) |->
              [id |-> (t - 1) * MaxRules + i,
               claimField |-> m[t][i].claimField,
               claimValue |-> m[t][i].claimValue,
               teamRole |-> m[t][i].teamRole]]]
  IN {WithIds(m) : m \in [TeamIds -> lists]}

\* matchesClaim(claimValue, expectedValue)
matchesClaim(claimValue, expectedValue) ==
  LET \* String(v) of line 202
      String(v) ==
        IF v.t = "number" THEN <<v.n>>
        ELSE IF v.t = "boolean"
          THEN (IF v.n = 1 THEN <<29, 27, 30, 14>> ELSE <<15, 10, 21, 28, 14>>)
        ELSE <<BANG>>
  IN
  IF claimValue.t \in {"undefined", "null"} THEN FALSE
  ELSE IF claimValue.t = "array"
    THEN \E i \in 1..Len(claimValue.a) : claimValue.a[i] = expectedValue
  ELSE IF claimValue.t = "string"
    THEN \/ claimValue.s = expectedValue
         \/ LET parts == SplitBy(claimValue.s, COMMA)
            IN includes([i \in 1..Len(parts) |-> trim(parts[i])], expectedValue)
  ELSE String(claimValue) = expectedValue

\* ensureTeamMembership that rewrites the role of an existing membership
ensureTeamMembership_rewrite(members, teams, userId, teamId, role, fault) ==
  IF fault = "findUnique" \/ teamId \notin teams \/ fault = "findFirst" THEN members
  ELSE IF \E i \in 1..Len(members) :
            members[i].userId = userId /\ members[i].teamId = teamId
    THEN [i \in 1..Len(members) |->
            IF members[i].userId = userId /\ members[i].teamId = teamId
            THEN [members[i] EXCEPT !.role = role] ELSE members[i]]
  ELSE IF fault = "create" THEN members
  ELSE Append(members, [id |-> Len(members) + 1, teamId |-> teamId, userId |-> userId,
                        role |-> IF role = "" THEN "team_member" ELSE role])

\* ensureTeamMembership(userId, teamId, role) on the teamUser table; fault
\* names the Prisma call of this run that throws, if any
ensureTeamMembership(members, teams, userId, teamId, role, fault) ==
  IF fault = "findUnique" THEN members
  ELSE IF teamId \notin teams THEN members
  ELSE IF fault = "findFirst" THEN members
  ELSE IF \E i \in 1..Len(members) :
            members[i].userId = userId /\ members[i].teamId = teamId
    THEN members
  ELSE IF fault = "create" THEN members
  ELSE Append(members, [id |-> Len(members) + 1, teamId |-> teamId, userId |-> userId,
                        role |-> IF role = "" THEN "team_member" ELSE role])

\* an ensureTeamMembership that lets the error of a Prisma call escape
MembershipCatch_rethrow(threw) == threw

\* the catch of lines 245-247: the error is logged, the call returns
MembershipCatch(threw) == FALSE

\* a rule loop that goes on after a match
BreakAt_never(matched) == FALSE

\* the break of line 168
BreakAt(matched) == matched

\* the inner loop of lines 154-171 from rule i on; st holds the teamUser
\* table and the rules looked at so far
RECURSIVE RunRules(_, _, _, _, _, _, _, _, _)
RunRules(rules, i, st, teams, userId, teamId, userInfo, idTokenClaims, fault) ==
  IF i > Len(rules) \/ st.thrown THEN st
  ELSE LET rule == rules[i]
           claimValue == Coalesce(userInfo[rule.claimField],
                                  idTokenClaims[rule.claimField])
           matched == matchesClaim(claimValue, rule.claimValue)
           seen == [st EXCEPT !.evaluated = @ \cup {<<teamId, i>>}]
           threw == \/ fault = "findUnique"
                    \/ fault = "findFirst" /\ teamId \in teams
                    \/ /\ fault = "create" /\ teamId \in teams
                       /\ ~\E m \in 1..Len(st.members) :
                            /\ st.members[m].userId = userId
                            /\ st.members[m].teamId = teamId
           st1 == IF matched
                  THEN [seen EXCEPT !.members =
                          ensureTeamMembership(@, teams, userId, teamId, rule.teamRole,
                                               fault),
                                    !.thrown = MembershipCatch(threw)]
                  ELSE seen
       IN IF BreakAt(matched) THEN st1
          ELSE RunRules(rules, i + 1, st1, teams, userId, teamId, userInfo,
                        idTokenClaims, fault)

\* the outer loop of lines 151-172 over the team ids from t on
RECURSIVE RunTeams(_, _, _, _, _, _, _, _)
RunTeams(allRules, t, st, teams, userId, userInfo, idTokenClaims, fault) ==
  IF t > Cardinality(TeamIds) \/ st.thrown THEN st
  ELSE RunTeams(allRules, t + 1,
                RunRules(allRules[t], 1, st, teams, userId, t, userInfo, idTokenClaims,
                         IF fault.teamId = t THEN fault.at ELSE "none"),
                teams, userId, userInfo, idTokenClaims, fault)

\* applyTeamMappings(userId, userInfo, idTokenClaims)
applyTeamMappings(userInfo, idTokenClaims, repeat, fault) ==
  /\ tm_logins < MaxLogins
  /\ tm_logins' = tm_logins + 1
  /\ LET st == RunTeams(tm_rules, 1,
                        [members |-> tm_members, evaluated |-> {}, thrown |-> FALSE],
                        tm_teams, LoginUser, userInfo, idTokenClaims, fault)
     IN /\ tm_members' = st.members
        /\ tm_call' = [done |-> TRUE, userId |-> LoginUser, userInfo |-> userInfo,
                       idTokenClaims |-> idTokenClaims, rules |-> tm_rules,
                       before |-> tm_members, evaluated |-> st.evaluated,
                       repeat |-> repeat, fault |-> fault, thrown |-> st.thrown]
  /\ UNCHANGED <<tm_rules, tm_teams, tm_edit, tm_clock, tm_edits, tm_nextId, tm_redis,
                 tm_keys>>

\* step 6b of the callback for a first login, with the claims of the user;
\* in the login that presents both groups one Prisma call may throw
TmLogin ==
  /\ ~tm_call.done
  /\ \E u \in {Undefined, Str(<<10>>), Arr(<<<<10>>, <<11>>>>)},
        t \in {Undefined, Str(<<SPACE, 11>>)},
        fault \in [teamId : TeamIds, at : {"none", "findUnique", "findFirst", "create"}] :
       /\ fault.at # "none" => u.t = "array" /\ t.t = "undefined"
       /\ fault.at = "none" => fault.teamId = 1
       /\ applyTeamMappings([f \in Fields |-> u], [f \in Fields |-> t], FALSE, fault)
  /\ UNCHANGED <<clockVars, stVars, dcVars, cbVars, rlVars, pvVars, cfVars, cc_proc>>

\* the same user logs in again with the same claims
TmRepeat ==
  /\ tm_call.done
  /\ applyTeamMappings(tm_call.userInfo, tm_call.idTokenClaims, TRUE,
                       [teamId |-> 1, at |-> "none"])
  /\ UNCHANGED <<clockVars, stVars, dcVars, cbVars, rlVars, pvVars, cfVars, cc_proc>>

InitTeam ==
  /\ now = 0
  /\ ticks = 0
  /\ CfIdle
  /\ CcIdle
  /\ StIdle
  /\ DcIdle
  /\ CbIdle
  /\ RlIdle
  /\ PvIdle
  /\ tm_rules \in InitRuleMaps
  \* per team: no such team, a team without the user, a team with the user
  /\ \E m \in [TeamIds -> {"absent", "open", "member"}] :
       LET RECURSIVE build(_)
           build(t) ==
             IF t = 0 THEN <<>>
             ELSE IF m[t] = "member"
               THEN Append(build(t - 1),
                           [id |-> Len(build(t - 1)) + 1, teamId |-> t,
                            userId |-> LoginUser, role |-> "team_view_only"])
             ELSE build(t - 1)
       IN /\ tm_teams = {t \in TeamIds : m[t] # "absent"}
          /\ tm_members = build(Cardinality(TeamIds))
  /\ tm_call = NoTmCall
  /\ tm_logins = 0
  /\ tm_edit = [a \in Admins |-> NoEdit]
  /\ tm_clock = 0
  /\ tm_edits = 0
  /\ tm_nextId = 1
  /\ tm_redis = TRUE
  /\ tm_keys = {t \in TeamIds : tm_rules[t] # <<>>}

NextTeam ==
  \/ TmLogin
  \/ TmRepeat

SpecTeam == InitTeam /\ [][NextTeam]_vars

\* ---------------------------------------------------- team sync, statements
\* the claim a rule looks at: the one of userInfo, or the one of the id-token
\* claims when userInfo has none
TmValue(rule) ==
  IF tm_call.userInfo[rule.claimField].t \in {"undefined", "null"}
  THEN tm_call.idTokenClaims[rule.claimField]
  ELSE tm_call.userInfo[rule.claimField]

\* the rules of team t that match the claims of the run
TmMatching(t) ==
  {i \in 1..Len(tm_call.rules[t]) :
     InAdminGroup(TmValue(tm_call.rules[t][i]), tm_call.rules[t][i].claimValue)}

TmWasMember(t) ==
  \E i \in 1..Len(tm_call.before) :
    tm_call.before[i].teamId = t /\ tm_call.before[i].userId = tm_call.userId

\* the memberships of the user in team t that the run created
TmCreated(t) ==
  {i \in (Len(tm_call.before) + 1)..Len(tm_members) :
     tm_members[i].teamId = t /\ tm_members[i].userId = tm_call.userId}

TmEvaluated(t) == {i \in 1..Len(tm_call.rules[t]) : <<t, i>> \in tm_call.evaluated}

\* a Prisma call of ensureTeamMembership threw for team t in the run
TmFaulted(t) == tm_call.fault.teamId = t /\ tm_call.fault.at # "none"

C19_ExistingMemberKept ==
  tm_call.done =>
    /\ Len(tm_members) >= Len(tm_call.before)
    /\ \A i \in 1..Len(tm_call.before) : tm_members[i] = tm_call.before[i]
    /\ \A t \in TeamIds : TmWasMember(t) => TmCreated(t) = {}

C19_Witness ==
  /\ tm_call.done
  /\ \E t \in TeamIds :
       /\ TmWasMember(t)
       /\ TmMatching(t) # {}
       /\ \A i \in TmMatching(t) : tm_call.rules[t][i].teamRole = "team_owner"
       /\ TmCreated(t) = {}
       /\ \E i \in 1..Len(tm_members) :
            /\ tm_members[i].teamId = t
            /\ tm_members[i].role = "team_view_only"

\* ------------------------------------- rule edits (addTeamRule, removeTeamRule)
\* the ids of the rules of a mapping
RuleIds(all) == UNION {{all[t][i].id : i \in 1..Len(all[t])} : t \in TeamIds}

\* all[teamId].filter(r => r.id !== ruleId)
RECURSIVE WithoutRule(_, _)
WithoutRule(rules, ruleId) ==
  IF rules = <<>> THEN <<>>
  ELSE IF Head(rules).id = ruleId THEN WithoutRule(Tail(rules), ruleId)
  ELSE <<Head(rules)>> \o WithoutRule(Tail(rules), ruleId)

\* a removal that drops the whole list of the team
Edited_clear(e, all) ==
  IF e.op = "add" THEN [all EXCEPT ![e.teamId] = Append(@, e.rule)]
  ELSE [all EXCEPT ![e.teamId] = <<>>]

\* the mapping an edit writes, from the mapping it starts from
Edited(e, all) ==
  IF e.op = "add"
  THEN [all EXCEPT ![e.teamId] = Append(@, e.rule)]
  ELSE [all EXCEPT ![e.teamId] = WithoutRule(@, e.rule.id)]

\* a removal that leaves the key of an emptied list in the object
EditedKeys_keep(e, keys, all) ==
  IF e.op = "add" THEN keys \cup {e.teamId} ELSE keys

\* the keys of the object an edit writes: addTeamRule creates the entry of
\* its team, removeTeamRule deletes the entry of a list it emptied
EditedKeys(e, keys, all) ==
  IF e.op = "add" THEN keys \cup {e.teamId}
  ELSE IF WithoutRule(all[e.teamId], e.rule.id) = <<>> THEN keys \ {e.teamId}
  ELSE keys

\* an edit that starts from the stored mapping at the time of its write
Written_merge(a) == Edited(tm_edit[a], tm_rules)

\* JSON.stringify(all): `all` is what getAllTeamRules returned to this call
Written(a) == Edited(tm_edit[a], tm_edit[a].all)

\* getAllTeamRules(): the stored mapping, and the empty one when Redis is
\* disabled or the read throws
getAllTeamRules(readOk) == IF tm_redis /\ readOk THEN tm_rules ELSE NoRules

\* the JSON objects a request can carry: teamId 3 is no team of the table,
\* 0 and "" and null stand for a missing entry, " " is a blank value, sent
\* for team 1 without a role
Bodies(method) ==
  IF method = "POST"
  THEN {b \in [teamId : 0..3, ruleId : {0}, claimField : {"", "groups"},
                 claimValue : {NullStr, <<SPACE>>, <<SPACE, 11>>},
                 teamRole : {"", "team_owner"}] :
          b.claimValue = <<SPACE>> => b.teamId = 1 /\ b.teamRole = ""}
  ELSE IF method = "DELETE"
  THEN [teamId : 0..3, ruleId : 0..tm_nextId, claimField : {""},
        claimValue : {NullStr}, teamRole : {""}]
  ELSE {NoBody}

\* the checks of a handler with the 400 of the body before the 403 and 503
RouteStatus_bodyfirst(method, isAdmin, parsed, body) ==
  IF method = "POST" /\ parsed
     /\ (body.teamId = 0 \/ body.claimField = "" \/ ~Truthy(body.claimValue))
  THEN 400
  ELSE IF method = "DELETE" /\ parsed /\ (body.teamId = 0 \/ body.ruleId = 0)
  THEN 400
  ELSE IF ~isAdmin THEN 403
  ELSE IF ~tm_redis THEN 503
  ELSE IF method = "GET" THEN 200
  ELSE IF ~parsed THEN 500
  ELSE IF method = "POST" /\ body.teamId \notin tm_teams THEN 404
  ELSE 0

\* the checks of GET, POST and DELETE before addTeamRule or removeTeamRule
\* is called: the status they answer, 0 when they let the request pass
RouteStatus(method, isAdmin, parsed, body) ==
  IF ~isAdmin THEN 403
  ELSE IF ~tm_redis THEN 503
  ELSE IF method = "GET" THEN 200
  ELSE IF ~parsed THEN 500
  ELSE IF method = "POST"
  THEN IF body.teamId = 0 \/ body.claimField = "" \/ ~Truthy(body.claimValue)
       THEN 400
       ELSE IF body.teamId \notin tm_teams THEN 404
       ELSE 0
  ELSE IF body.teamId = 0 \/ body.ruleId = 0 THEN 400
  ELSE 0

\* a request that one of the checks answers, or a GET
EdAnswer(a) ==
  /\ tm_edit[a].pc = "idle"
  /\ \E method \in {"GET", "POST", "DELETE"}, isAdmin \in BOOLEAN, parsed \in BOOLEAN :
       \E body \in (IF parsed THEN Bodies(method) ELSE {NoBody}) :
         /\ RouteStatus(method, isAdmin, parsed, body) # 0
         /\ tm_edit' = [tm_edit EXCEPT ![a] =
              [NoEdit EXCEPT !.pc = "done", !.method = method, !.isAdmin = isAdmin,
                             !.parsed = parsed, !.body = body, !.stored = tm_rules,
                             !.status = RouteStatus(method, isAdmin, parsed, body)]]
  /\ UNCHANGED <<tm_rules, tm_teams, tm_members, tm_call, tm_logins,
                 tm_clock, tm_edits, tm_nextId, tm_redis, tm_keys>>

\* an identifier source that hands out the previous value again
randomUUID_reuse == IF tm_nextId > 1 THEN tm_nextId - 1 ELSE tm_nextId

\* randomUUID(): a value no earlier call returned
randomUUID == tm_nextId

\* POST /team-rules that passes the checks, up to the read in addTeamRule
\* (line 77)
EdAddRead(a) ==
  /\ tm_edit[a].pc = "idle"
  /\ tm_edits < MaxEdits
  /\ \E body \in Bodies("POST"), readOk \in BOOLEAN :
       /\ RouteStatus("POST", TRUE, TRUE, body) = 0
       /\ tm_edit' = [tm_edit EXCEPT ![a] =
            [NoEdit EXCEPT !.pc = "read", !.op = "add", !.teamId = body.teamId,
                           !.rule = [id |-> randomUUID, claimField |-> body.claimField,
                                     claimValue |-> trim(body.claimValue),
                                     teamRole |-> IF body.teamRole = ""
                                                  THEN "team_member" ELSE body.teamRole],
                           !.all = getAllTeamRules(readOk),
                           !.keys = IF tm_redis /\ readOk THEN tm_keys ELSE {},
                           !.readAt = tm_clock + 1,
                           !.method = "POST", !.isAdmin = TRUE, !.parsed = TRUE,
                           !.body = body, !.readOk = readOk, !.stored = tm_rules]]
  /\ tm_nextId' = tm_nextId + 1
  /\ tm_clock' = tm_clock + 1
  /\ tm_edits' = tm_edits + 1
  /\ UNCHANGED <<tm_rules, tm_teams, tm_members, tm_call, tm_logins, tm_redis,
                 tm_keys>>

\* DELETE /team-rules that passes the checks, up to the read in
\* removeTeamRule (line 101) and the two returns of false that follow it,
\* which the handler answers with 404
EdRemoveRead(a) ==
  /\ tm_edit[a].pc = "idle"
  /\ tm_edits < MaxEdits
  /\ \E body \in Bodies("DELETE"), readOk \in BOOLEAN :
       LET all == getAllTeamRules(readOk)
           keys == IF tm_redis /\ readOk THEN tm_keys ELSE {}
           found == /\ body.teamId \in keys
                    /\ Len(WithoutRule(all[body.teamId], body.ruleId))
                         # Len(all[body.teamId])
       IN /\ RouteStatus("DELETE", TRUE, TRUE, body) = 0
          /\ tm_edit' = [tm_edit EXCEPT ![a] =
               [NoEdit EXCEPT !.pc = IF found THEN "read" ELSE "done",
                              !.op = "remove", !.teamId = body.teamId,
                              !.rule = [NoEdit.rule EXCEPT !.id = body.ruleId],
                              !.all = all, !.keys = keys, !.readAt = tm_clock + 1,
                              !.result = IF found THEN "none" ELSE "false",
                              !.status = IF found THEN 0 ELSE 404,
                              !.method = "DELETE", !.isAdmin = TRUE, !.parsed = TRUE,
                              !.body = body, !.readOk = readOk, !.stored = tm_rules]]
  /\ tm_clock' = tm_clock + 1
  /\ tm_edits' = tm_edits + 1
  /\ UNCHANGED <<tm_rules, tm_teams, tm_members, tm_call, tm_logins, tm_nextId,
                 tm_redis, tm_keys>>

\* redis.client.set(RULES_KEY, JSON.stringify(all)), the return and the
\* answer of the handler
EdWrite(a) ==
  /\ tm_edit[a].pc = "read"
  /\ tm_rules' = Written(a)
  /\ tm_keys' = EditedKeys(tm_edit[a], tm_edit[a].keys, tm_edit[a].all)
  /\ tm_clock' = tm_clock + 1
  /\ tm_edit' = [tm_edit EXCEPT ![a].pc = "done", ![a].wroteAt = tm_clock + 1,
                                ![a].written = Written(a), ![a].result = "ok",
                                ![a].status = IF tm_edit[a].op = "add" THEN 201
                                              ELSE 200]
  /\ UNCHANGED <<tm_teams, tm_members, tm_call, tm_logins, tm_edits, tm_nextId,
                 tm_redis>>

\* the response has been sent
EdReturn(a) ==
  /\ tm_edit[a].pc = "done"
  /\ tm_edit' = [tm_edit EXCEPT ![a] = NoEdit]
  /\ UNCHANGED <<tm_rules, tm_teams, tm_members, tm_call, tm_logins,
                 tm_clock, tm_edits, tm_nextId, tm_redis, tm_keys>>

InitRules ==
  /\ now = 0
  /\ ticks = 0
  /\ CfIdle
  /\ CcIdle
  /\ StIdle
  /\ DcIdle
  /\ CbIdle
  /\ RlIdle
  /\ PvIdle
  /\ tm_rules = NoRules
  /\ tm_teams = TeamIds
  /\ tm_members = <<>>
  /\ tm_call = NoTmCall
  /\ tm_logins = 0
  /\ tm_edit = [a \in Admins |-> NoEdit]
  /\ tm_clock = 0
  /\ tm_edits = 0
  /\ tm_nextId = 1
  /\ tm_redis = TRUE
  /\ tm_keys = {t \in TeamIds : tm_rules[t] # <<>>}

NextRules ==
  \E a \in Admins :
    \/ EdAddRead(a) /\ UNCHANGED <<clockVars, stVars, dcVars, cbVars, rlVars, pvVars, cfVars, cc_proc>>
    \/ EdRemoveRead(a) /\ UNCHANGED <<clockVars, stVars, dcVars, cbVars, rlVars, pvVars, cfVars, cc_proc>>
    \/ EdWrite(a) /\ UNCHANGED <<clockVars, stVars, dcVars, cbVars, rlVars, pvVars, cfVars, cc_proc>>
    \/ EdReturn(a) /\ UNCHANGED <<clockVars, stVars, dcVars, cbVars, rlVars, pvVars, cfVars, cc_proc>>

SpecRules == InitRules /\ [][NextRules]_vars

\* one administrator's or stranger's requests, one at a time, on a store
\* that earlier requests filled, with Redis enabled or not
InitRoute ==
  /\ now = 0
  /\ ticks = 0
  /\ CfIdle
  /\ CcIdle
  /\ StIdle
  /\ DcIdle
  /\ CbIdle
  /\ RlIdle
  /\ PvIdle
  /\ tm_rules \in {m \in InitRuleMaps :
                     \A t \in TeamIds : \A i \in 1..Len(m[t]) :
                       m[t][i].claimValue = <<11>> /\ m[t][i].teamRole = "team_member"}
  /\ tm_teams = TeamIds
  /\ tm_members = <<>>
  /\ tm_call = NoTmCall
  /\ tm_logins = 0
  /\ tm_edit = [a \in Admins |-> NoEdit]
  /\ tm_clock = 0
  /\ tm_edits = 0
  /\ tm_nextId = Cardinality(TeamIds) * MaxRules + 1
  /\ tm_redis \in BOOLEAN
  /\ tm_keys = {t \in TeamIds : tm_rules[t] # <<>>}

NextRoute ==
  \/ EdAnswer(1) /\ UNCHANGED <<clockVars, stVars, dcVars, cbVars, rlVars, pvVars, cfVars, cc_proc>>
  \/ EdAddRead(1) /\ UNCHANGED <<clockVars, stVars, dcVars, cbVars, rlVars, pvVars, cfVars, cc_proc>>
  \/ EdRemoveRead(1) /\ UNCHANGED <<clockVars, stVars, dcVars, cbVars, rlVars, pvVars, cfVars, cc_proc>>
  \/ EdWrite(1) /\ UNCHANGED <<clockVars, stVars, dcVars, cbVars, rlVars, pvVars, cfVars, cc_proc>>
  \/ EdReturn(1) /\ UNCHANGED <<clockVars, stVars, dcVars, cbVars, rlVars, pvVars, cfVars, cc_proc>>

SpecRoute == InitRoute /\ [][NextRoute]_vars

\* -------------------------------------------------- rule edits, statements
\* a and b both read the same stored mapping before either wrote, and b
\* wrote last
EdRaced(a, b) ==
  /\ a # b
  /\ tm_edit[a].all = tm_edit[b].all
  /\ tm_edit[a].pc = "done" /\ tm_edit[b].pc = "done"
  /\ tm_edit[a].wroteAt > 0 /\ tm_edit[b].wroteAt > 0
  /\ tm_edit[a].wroteAt < tm_edit[b].wroteAt
  /\ tm_edit[b].readAt < tm_edit[a].wroteAt

\* the stored mapping does not show the edit of a
EdLost(a) ==
  IF tm_edit[a].op = "add"
  THEN tm_edit[a].rule.id \notin RuleIds(tm_rules)
  ELSE tm_edit[a].rule.id \in RuleIds(tm_rules)

EdSameRemoval(a, b) ==
  /\ tm_edit[a].op = "remove" /\ tm_edit[b].op = "remove"
  /\ tm_edit[a].rule.id = tm_edit[b].rule.id

\* C20, as stated: when both calls read before either writes, the stored
\* mapping is the one written last and the edit of the other call is lost,
\* although that call reported success.
C20_Original ==
  \A a, b \in Admins :
    EdRaced(a, b) =>
      /\ tm_rules = tm_edit[b].written
      /\ tm_edit[a].result = "ok"
      /\ EdLost(a)

\* C20: when both calls read before either writes, the stored mapping is
\* the one written last and the first writer reported success; its edit is
\* lost unless both calls removed the same rule, which then stays removed.
C20_LastWriterWins ==
  \A a, b \in Admins :
    EdRaced(a, b) =>
      /\ tm_rules = tm_edit[b].written
      /\ tm_rules = Edited(tm_edit[b], tm_edit[b].all)
      /\ tm_edit[a].result = "ok"
      /\ EdLost(a) <=> ~EdSameRemoval(a, b)

C20_Witness ==
  \E a, b \in Admins :
    /\ EdRaced(a, b)
    /\ tm_edit[a].op = "remove" /\ tm_edit[b].op = "add"
    /\ tm_edit[a].result = "ok"
    /\ tm_edit[a].rule.id \in RuleIds(tm_rules)
    /\ tm_edit[b].rule.id \in RuleIds(tm_rules)

\* ------------------------------------------------ route requests, statements
\* the list stored for the team of request e when the request arrived
EdStoredList(e) == IF e.teamId \in TeamIds THEN e.stored[e.teamId] ELSE <<>>

\* the list of request e held a rule with the id the request names
EdHadRule(e) == \E i \in 1..Len(EdStoredList(e)) : EdStoredList(e)[i].id = e.rule.id

EdMissing(e) ==
  \/ e.method = "POST"
     /\ (e.body.teamId = 0 \/ e.body.claimField = "" \/ e.body.claimValue \in {NullStr, <<>>})
  \/ e.method = "DELETE" /\ (e.body.teamId = 0 \/ e.body.ruleId = 0)

\* the team a POST names is not in the team table, or the rule a DELETE
\* names was not in the list of its team when the request arrived
EdAbsent(e) ==
  \/ e.method = "POST" /\ e.body.teamId \notin tm_teams
  \/ e.method = "DELETE"
     /\ \A i \in 1..Len(IF e.body.teamId \in TeamIds THEN e.stored[e.body.teamId] ELSE <<>>) :
          e.stored[e.body.teamId][i].id # e.body.ruleId

\* C22: a team-rules request of a caller who is not an administrator is
\* answered 403 and leaves the rule store as it was, whatever redis.enabled
\* and the body are; for an administrator the answer is 503 when Redis is
\* disabled, else (for POST and DELETE with a parsed body) 400 when a required
\* field is missing, else 404 when the team or the rule does not exist, and
\* the store is written only by a request none of these applies to
C22_GuardOrder ==
  LET e == tm_edit[1]
  IN (e.pc = "done" /\ e.method # "none") =>
       /\ ~e.isAdmin => (e.status = 403 /\ e.wroteAt = 0 /\ tm_rules = e.stored)
       /\ e.isAdmin =>
            IF ~tm_redis THEN e.status = 503
            ELSE IF e.method = "GET" THEN e.status = 200
            ELSE IF ~e.parsed THEN e.status = 500
            ELSE IF EdMissing(e) THEN e.status = 400
            ELSE IF EdAbsent(e) THEN e.status = 404
            ELSE IF e.method = "POST" THEN e.status = 201
            ELSE IF e.readOk THEN e.status = 200
            ELSE e.status = 404
       /\ e.wroteAt > 0 =>
            /\ e.isAdmin /\ tm_redis /\ e.parsed
            /\ ~EdMissing(e) /\ ~EdAbsent(e)
            /\ e.status \in {200, 201}
       /\ e.wroteAt = 0 => tm_rules = e.stored

\* a stranger's POST without a team id, sent while Redis is disabled, has
\* been answered 403
C22_Witness ==
  /\ tm_edit[1].pc = "done"
  /\ tm_edit[1].method = "POST"
  /\ ~tm_edit[1].isAdmin
  /\ tm_edit[1].parsed
  /\ tm_edit[1].body.teamId = 0
  /\ ~tm_redis
  /\ tm_edit[1].status = 403

\* C30, as stated: after an addTeamRule call the stored mapping is the one
\* stored when the call started with the new rule (trimmed value, the given
\* role or team_member) appended to the list of its team, also when the
\* read of the call has failed
C30_Original ==
  LET e == tm_edit[1]
  IN (e.op = "add" /\ e.pc = "done") =>
       /\ e.rule.claimField = e.body.claimField
       /\ e.rule.claimValue = trim(e.body.claimValue)
       /\ e.rule.teamRole = (IF e.body.teamRole = "" THEN "team_member"
                              ELSE e.body.teamRole)
       /\ tm_rules = [e.stored EXCEPT ![e.teamId] = Append(@, e.rule)]

\* ------------------------------------------------------------ configuration
\* the environments considered: each variable unset or set, OIDC_ENABLED
\* also to "TRUE", OIDC_CLIENT_ID also to the empty string, OIDC_AUTO_CREATE
\* to "false" and "FALSE", APP_URL with a trailing slash
Envs ==
  [OIDC_ENABLED : {NullStr, <<1>>, <<29, 27, 30, 14>>,
                   <<Upper(29), Upper(27), Upper(30), Upper(14)>>},
   OIDC_CLIENT_ID : {NullStr, <<>>, <<12>>},
   OIDC_CLIENT_SECRET : {NullStr, <<28>>},
   OIDC_ISSUER_URL : {NullStr, <<18>>},
   OIDC_SCOPES : {NullStr, <<24>>},
   OIDC_REDIRECT_URI : {NullStr, <<27>>},
   OIDC_ROLE_CLAIM : {NullStr, <<27, 24>>},
   OIDC_ADMIN_GROUP : {NullStr, <<10>>},
   OIDC_AUTO_CREATE : {NullStr, <<15, 10, 21, 28, 14>>,
                       <<Upper(15), Upper(10), Upper(21), Upper(28), Upper(14)>>},
   OIDC_DISPLAY_NAME : {NullStr, <<13>>},
   APP_URL : {NullStr, <<17, SPACE + 3>>}]

\* a getOidcConfig that keeps the configuration of the call before
getOidcConfig_cached(env) ==
  IF cf_call.op = "getOidcConfig" THEN cf_call.result
  ELSE LET Or(v, d) == IF v = NullStr THEN d ELSE v
       IN [enabled |-> env.OIDC_ENABLED \in {<<1>>, <<29, 27, 30, 14>>},
           clientId |-> Or(env.OIDC_CLIENT_ID, <<>>),
           clientSecret |-> Or(env.OIDC_CLIENT_SECRET, <<>>),
           issuerUrl |-> Or(env.OIDC_ISSUER_URL, <<>>),
           scopes |-> Or(env.OIDC_SCOPES,
                         <<24, 25, 14, 23, 18, 13, SPACE, 25, 27, 24, 15, 18, 21, 14,
                           SPACE, 14, 22, 10, 18, 21>>),
           redirectUri |-> Or(env.OIDC_REDIRECT_URI, <<>>),
           roleClaim |-> Or(env.OIDC_ROLE_CLAIM, <<16, 27, 24, 30, 25, 28>>),
           adminGroup |-> Or(env.OIDC_ADMIN_GROUP,
                             <<30, 22, 10, 22, 18, SPACE + 2, 10, 13, 22, 18, 23>>),
           autoCreate |-> env.OIDC_AUTO_CREATE # <<15, 10, 21, 28, 14>>,
           displayName |-> Or(env.OIDC_DISPLAY_NAME,
                              <<Upper(28), 18, 23, 16, 21, 14, SPACE,
                                Upper(28), 18, 16, 23, SPACE + 2, Upper(24), 23>>)]

\* getOidcConfig() in environment env; SPACE + 2 is the hyphen
getOidcConfig(env) ==
  LET \* v ?? d
      Or(v, d) == IF v = NullStr THEN d ELSE v
  IN [enabled |-> env.OIDC_ENABLED = <<1>> \/ env.OIDC_ENABLED = <<29, 27, 30, 14>>,
      clientId |-> Or(env.OIDC_CLIENT_ID, <<>>),
      clientSecret |-> Or(env.OIDC_CLIENT_SECRET, <<>>),
      issuerUrl |-> Or(env.OIDC_ISSUER_URL, <<>>),
      scopes |-> Or(env.OIDC_SCOPES,
                    <<24, 25, 14, 23, 18, 13, SPACE, 25, 27, 24, 15, 18, 21, 14,
                      SPACE, 14, 22, 10, 18, 21>>),
      redirectUri |-> Or(env.OIDC_REDIRECT_URI, <<>>),
      roleClaim |-> Or(env.OIDC_ROLE_CLAIM, <<16, 27, 24, 30, 25, 28>>),
      adminGroup |-> Or(env.OIDC_ADMIN_GROUP,
                        <<30, 22, 10, 22, 18, SPACE + 2, 10, 13, 22, 18, 23>>),
      autoCreate |-> env.OIDC_AUTO_CREATE # <<15, 10, 21, 28, 14>>,
      displayName |-> Or(env.OIDC_DISPLAY_NAME,
                         <<Upper(28), 18, 23, 16, 21, 14, SPACE,
                           Upper(28), 18, 16, 23, SPACE + 2, Upper(24), 23>>)]

\* a validateOidcConfig that tests the client secret before the client id
validateOidcConfig_secretfirst(cfg) ==
  IF ~cfg.enabled THEN "null"
  ELSE IF cfg.clientSecret = <<>> THEN "OIDC_CLIENT_SECRET is required"
  ELSE IF cfg.clientId = <<>> THEN "OIDC_CLIENT_ID is required"
  ELSE IF cfg.issuerUrl = <<>> THEN "OIDC_ISSUER_URL is required"
  ELSE "null"

\* validateOidcConfig(cfg): the error message, "null" for null
validateOidcConfig(cfg) ==
  IF ~cfg.enabled THEN "null"
  ELSE IF ~Truthy(cfg.clientId) THEN "OIDC_CLIENT_ID is required"
  ELSE IF ~Truthy(cfg.clientSecret) THEN "OIDC_CLIENT_SECRET is required"
  ELSE IF ~Truthy(cfg.issuerUrl) THEN "OIDC_ISSUER_URL is required"
  ELSE "null"

\* getOidcConfig() is called, for the first or the second time of a run
CfGetConfig ==
  /\ cf_call.op = "none" \/ (cf_call.op = "getOidcConfig" /\ ~cf_call.again)
  /\ cf_call' = [op |-> "getOidcConfig", env |-> cf_env,
                 again |-> cf_call.op = "getOidcConfig",
                 result |-> getOidcConfig(cf_env),
                 prev |-> IF cf_call.op = "getOidcConfig" THEN cf_call.result
                          ELSE getOidcConfig(NoEnv)]
  /\ UNCHANGED cf_env

\* the environment changes between two calls of getOidcConfig
CfSetEnv ==
  /\ cf_call.op = "getOidcConfig"
  /\ cf_call.env = cf_env
  /\ ~cf_call.again
  /\ \/ \E v \in {NullStr, <<1>>, <<29, 27, 30, 14>>} :
          cf_env' = [cf_env EXCEPT !.OIDC_ENABLED = v]
     \/ \E v \in {NullStr, <<15, 10, 21, 28, 14>>} :
          cf_env' = [cf_env EXCEPT !.OIDC_AUTO_CREATE = v]
  /\ cf_env' # cf_env
  /\ UNCHANGED cf_call

\* validateOidcConfig(getOidcConfig()) is called
CfValidate ==
  /\ cf_call.op = "none"
  /\ cf_call' = [op |-> "validateOidcConfig", env |-> cf_env, again |-> FALSE,
                 cfg |-> getOidcConfig(cf_env),
                 result |-> validateOidcConfig(getOidcConfig(cf_env))]
  /\ UNCHANGED cf_env

\* a config endpoint that also hands out the client id
ConfigGET_leak(cfg) ==
  [enabled |-> cfg.enabled, displayName |-> cfg.displayName,
   authorizeUrl |-> IF cfg.enabled THEN "/api/auth/oidc/authorize" ELSE "null",
   clientId |-> cfg.clientId]

\* the body GET /api/auth/oidc/config answers with, "null" for null
ConfigGET(cfg) ==
  [enabled |-> cfg.enabled, displayName |-> cfg.displayName,
   authorizeUrl |-> IF cfg.enabled THEN "/api/auth/oidc/authorize" ELSE "null"]

\* GET /api/auth/oidc/config
CfConfig ==
  /\ cf_call.op = "none"
  /\ cf_call' = [op |-> "config", env |-> cf_env, again |-> FALSE,
                 resp |-> ConfigGET(getOidcConfig(cf_env))]
  /\ UNCHANGED cf_env

\* getRedirectUri(request, configuredUri), origin being the origin of
\* request.url; SPACE + 3 is the slash
getRedirectUri(origin, configuredUri, env) ==
  LET path == <<SPACE + 3, 10, 25, 18, SPACE + 3, 10, 30, 29, 17, SPACE + 3,
                24, 18, 13, 12, SPACE + 3, 12, 10, 21, 21, 11, 10, 12, 20>>
      appUrl == env.APP_URL
      \* appUrl.replace(/\/+$/, '')
      cuts == {k \in 0..Len(appUrl) : \A i \in (k + 1)..Len(appUrl) : appUrl[i] = SPACE + 3}
      cut == CHOOSE k \in cuts : \A j \in cuts : k <= j
  IN IF Truthy(configuredUri) THEN configuredUri
     ELSE IF Truthy(appUrl) THEN SubSeq(appUrl, 1, cut) \o path
     ELSE origin \o path

\* a buildAuthorizationUrl that sends the state as the nonce
buildAuthorizationUrl_nonce(state, nonce, redirectUri, env, discovery) ==
  IF discovery = <<>> THEN <<>>
  ELSE <<[endpoint |-> discovery[1].authorization_endpoint,
          client_id |-> getOidcConfig(env).clientId,
          response_type |-> "code",
          scope |-> getOidcConfig(env).scopes,
          redirect_uri |-> redirectUri,
          state |-> state,
          nonce |-> state]>>

\* buildAuthorizationUrl(state, nonce, redirectUri) in environment env:
\* discovery is <<>> when getDiscovery throws and <<document>> otherwise,
\* the result is <<>> when the function throws and <<url>> otherwise, url
\* being the endpoint and the query parameters
buildAuthorizationUrl(state, nonce, redirectUri, env, discovery) ==
  IF discovery = <<>> THEN <<>>
  ELSE <<[endpoint |-> discovery[1].authorization_endpoint,
          client_id |-> getOidcConfig(env).clientId,
          response_type |-> "code",
          scope |-> getOidcConfig(env).scopes,
          redirect_uri |-> redirectUri,
          state |-> state,
          nonce |-> nonce]>>

\* GET /api/auth/oidc/authorize
CfAuthorize ==
  /\ cf_call.op = "none"
  /\ \E origin \in {<<17>>}, state \in generateState(AppSecret), nonce \in generateNonce,
        discovery \in {<<>>, <<[authorization_endpoint |-> <<10>>]>>} :
       LET cfg == getOidcConfig(cf_env)
           redirectUri == getRedirectUri(origin, cfg.redirectUri, cf_env)
           authUrl == buildAuthorizationUrl(state, nonce, redirectUri, cf_env, discovery)
           Cookie(name, value) == [name |-> name, value |-> value, maxAge |-> 600]
           resp ==
             IF ~cfg.enabled
             THEN [status |-> 404, error |-> "OIDC authentication is not enabled",
                   location |-> <<>>, cookies |-> {}]
             ELSE IF validateOidcConfig(cfg) # "null"
             THEN [status |-> 500, error |-> "OIDC is misconfigured. Check server logs.",
                   location |-> <<>>, cookies |-> {}]
             ELSE IF authUrl = <<>>
             THEN [status |-> 500, error |-> "Failed to initiate OIDC login",
                   location |-> <<>>, cookies |-> {}]
             ELSE [status |-> 307, error |-> "",
                   location |-> authUrl,
                   cookies |-> {Cookie("oidc_state", state), Cookie("oidc_nonce", nonce),
                                Cookie("oidc_redirect_uri", redirectUri)}]
       IN cf_call' = [op |-> "authorize", env |-> cf_env, again |-> FALSE,
                      origin |-> origin, discovery |-> discovery, resp |-> resp]
  /\ UNCHANGED cf_env

\* a callback that always takes the address it was reached at
CallbackRedirectUri_own(savedRedirectUri, baseUrl) ==
  baseUrl \o <<SPACE + 3, 10, 25, 18, SPACE + 3, 10, 30, 29, 17, SPACE + 3,
               24, 18, 13, 12, SPACE + 3, 12, 10, 21, 21, 11, 10, 12, 20>>

\* savedRedirectUri || `${baseUrl}/api/auth/oidc/callback` (callback, line 90)
CallbackRedirectUri(savedRedirectUri, baseUrl) ==
  IF Truthy(savedRedirectUri) THEN savedRedirectUri
  ELSE baseUrl \o <<SPACE + 3, 10, 25, 18, SPACE + 3, 10, 30, 29, 17, SPACE + 3,
                    24, 18, 13, 12, SPACE + 3, 12, 10, 21, 21, 11, 10, 12, 20>>

\* the browser comes back from the identity provider to the callback with
\* the state of the authorization URL and with the cookies of the authorize
\* response, which share one lifetime: all of them or, once expired, none.
\* The handler runs up to its call of exchangeCode (callback, lines 36-94);
\* exchanged is <<>> when it does not get there and <<redirectUri>> otherwise
CfCallback ==
  /\ cf_call.op = "authorize"
  /\ cf_call.resp.status = 307
  /\ \E kept \in BOOLEAN, code \in {NullStr, <<12, 1>>} :
       LET Value(name) ==
             IF kept
             THEN (CHOOSE c \in cf_call.resp.cookies : c.name = name).value
             ELSE NullStr
           state == cf_call.resp.location[1].state
           savedState == Value("oidc_state")
           savedRedirectUri == Value("oidc_redirect_uri")
           appUrl == cf_env.APP_URL
           cuts == {k \in 0..Len(appUrl) :
                      \A i \in (k + 1)..Len(appUrl) : appUrl[i] = SPACE + 3}
           \* getExternalBaseUrl: APP_URL without trailing slashes, else the
           \* host the request names
           baseUrl == IF Truthy(appUrl)
                      THEN SubSeq(appUrl, 1, CHOOSE k \in cuts : \A j \in cuts : k <= j)
                      ELSE cf_call.origin
           reached == /\ getOidcConfig(cf_env).enabled
                      /\ Truthy(code) /\ Truthy(state)
                      /\ StateMatches(state, savedState)
                      /\ verifyState(state, AppSecret, DEFAULT_MAX_AGE_MS)
       IN cf_call' = [op |-> "callback", env |-> cf_env, again |-> FALSE,
                      sent |-> cf_call.resp.location[1].redirect_uri,
                      kept |-> kept, code |-> code,
                      exchanged |-> IF reached
                                    THEN <<CallbackRedirectUri(savedRedirectUri, baseUrl)>>
                                    ELSE <<>>]
  /\ UNCHANGED cf_env

InitConfig ==
  /\ now = 0
  /\ ticks = 0
  /\ StIdle
  /\ DcIdle
  /\ CbIdle
  /\ RlIdle
  /\ PvIdle
  /\ TmIdle
  /\ cf_env \in Envs
  /\ cf_call = NoCfCall
  /\ CcIdle

NextConfig ==
  \/ CfGetConfig /\ UNCHANGED <<clockVars, stVars, dcVars, cbVars, rlVars, pvVars, tmVars, cc_proc>>
  \/ CfSetEnv /\ UNCHANGED <<clockVars, stVars, dcVars, cbVars, rlVars, pvVars, tmVars, cc_proc>>
  \/ CfValidate /\ UNCHANGED <<clockVars, stVars, dcVars, cbVars, rlVars, pvVars, tmVars, cc_proc>>
  \/ CfConfig /\ UNCHANGED <<clockVars, stVars, dcVars, cbVars, rlVars, pvVars, tmVars, cc_proc>>
  \/ CfAuthorize /\ UNCHANGED <<clockVars, stVars, dcVars, cbVars, rlVars, pvVars, tmVars, cc_proc>>
  \/ CfCallback /\ UNCHANGED <<clockVars, stVars, dcVars, cbVars, rlVars, pvVars, tmVars, cc_proc>>

SpecConfig == InitConfig /\ [][NextConfig]_vars

\* ----------------------------------------------------------- token claims
\* A token is a sequence of base64url characters, each given by its value
\* 0..63, and of dots, given by 64; a text is a sequence of bytes.

\* the base64url text of bytes b, without padding: character i holds the
\* bits 6(i-1)..6i-1 of the bytes
Base64Url(b) ==
  LET B(k) == IF k <= Len(b) THEN b[k] ELSE 0
  IN [i \in 1..((Len(b) * 4 + 2) \div 3) |->
        LET j == ((6 * (i - 1)) \div 8) + 1
            off == (6 * (i - 1)) % 8
        IN ((B(j) * 256 + B(j + 1)) \div (2 ^ (10 - off))) % 64]

\* parseIdTokenClaims(idToken): the value returned, an object with its
\* claims as pairs of key and number, null, or a number
parseIdTokenClaims(idToken) ==
  LET parts == SplitBy(idToken, 64)
      seg == parts[2]
      S(k) == IF k <= Len(seg) THEN seg[k] ELSE 0
      \* Buffer.from(parts[1], 'base64url').toString('utf-8'): byte k holds
      \* the bits 8(k-1)..8k-1 of the characters
      payload == [k \in 1..((Len(seg) * 6) \div 8) |->
                    LET j == ((8 * (k - 1)) \div 6) + 1
                        off == (8 * (k - 1)) % 6
                    IN ((S(j) * 64 + S(j + 1)) \div (2 ^ (4 - off))) % 256]
      empty == [t |-> "object", claims |-> {}, n |-> 0]
  IN IF Len(parts) # 3 THEN empty
     \* JSON.parse(payload) for {}, {"k":d}, null and d, k a letter and d a
     \* digit; it throws for the other payloads considered
     ELSE IF payload = <<123, 125>> THEN empty
     ELSE IF /\ Len(payload) = 7
             /\ payload[1] = 123 /\ payload[2] = 34 /\ payload[3] \in 97..122
             /\ payload[4] = 34 /\ payload[5] = 58 /\ payload[6] \in 48..57
             /\ payload[7] = 125
     THEN [t |-> "object", claims |-> {<<payload[3], payload[6] - 48>>}, n |-> 0]
     ELSE IF payload = <<110, 117, 108, 108>> THEN [t |-> "null", claims |-> {}, n |-> 0]
     ELSE IF Len(payload) = 1 /\ payload[1] \in 48..57
     THEN [t |-> "number", claims |-> {}, n |-> payload[1] - 48]
     ELSE empty

\* parseIdTokenClaims is called with a token of up to MaxSegments segments,
\* each the base64url text of {}, {"a":1}, null, 1, { or the empty text, or
\* a single character
CfParse ==
  /\ cf_call.op = "none"
  /\ \E k \in 1..MaxSegments :
       \E segs \in [1..k -> {Base64Url(<<123, 125>>),
                             Base64Url(<<123, 34, 97, 34, 58, 49, 125>>),
                             Base64Url(<<110, 117, 108, 108>>),
                             Base64Url(<<49>>), Base64Url(<<123>>), <<>>, <<5>>}] :
         LET \* segs.join('.')
             RECURSIVE join(_)
             join(p) == IF Len(p) = 1 THEN p[1]
                        ELSE p[1] \o <<64>> \o join(Tail(p))
         IN cf_call' = [op |-> "parseIdTokenClaims", env |-> cf_env, again |-> FALSE,
                        idToken |-> join(segs),
                        result |-> parseIdTokenClaims(join(segs))]
  /\ UNCHANGED cf_env

InitToken ==
  /\ now = 0
  /\ ticks = 0
  /\ StIdle
  /\ DcIdle
  /\ CbIdle
  /\ RlIdle
  /\ PvIdle
  /\ TmIdle
  /\ CfIdle
  /\ CcIdle

NextToken ==
  CfParse /\ UNCHANGED <<clockVars, stVars, dcVars, cbVars, rlVars, pvVars, tmVars, cc_proc>>

SpecToken == InitToken /\ [][NextToken]_vars

\* ------------------------------------------------ configuration, statements
\* OIDC_ENABLED of env is "1" or "true"
CfEnabled(env) == env.OIDC_ENABLED \in {<<1>>, <<29, 27, 30, 14>>}

\* the settings of env that validateOidcConfig requires and that are unset
\* or empty
CfMissing(env) ==
  {n \in {"OIDC_CLIENT_ID", "OIDC_CLIENT_SECRET", "OIDC_ISSUER_URL"} :
     LET v == IF n = "OIDC_CLIENT_ID" THEN env.OIDC_CLIENT_ID
              ELSE IF n = "OIDC_CLIENT_SECRET" THEN env.OIDC_CLIENT_SECRET
              ELSE env.OIDC_ISSUER_URL
     IN v \in {NullStr, <<>>}}

\* C23: the authorize endpoint answers 404 when OIDC is disabled and 500 when
\* it is enabled and a required setting is missing or building the
\* authorization URL fails, with no cookie in these cases; otherwise it
\* redirects to the authorization endpoint of the provider and sets exactly
\* the cookies oidc_state, oidc_nonce and oidc_redirect_uri, to the state,
\* nonce and redirect_uri parameters of the redirect URL
C23_Authorize ==
  cf_call.op = "authorize" =>
    LET r == cf_call.resp
        env == cf_call.env
        Value(name) == {c.value : c \in {d \in r.cookies : d.name = name}}
    IN IF ~CfEnabled(env)
       THEN r.status = 404 /\ r.cookies = {} /\ r.location = <<>>
       ELSE IF CfMissing(env) # {} \/ cf_call.discovery = <<>>
       THEN r.status = 500 /\ r.cookies = {} /\ r.location = <<>>
       ELSE /\ r.status = 307
            /\ Len(r.location) = 1
            /\ r.location[1].endpoint = cf_call.discovery[1].authorization_endpoint
            /\ {c.name : c \in r.cookies} = {"oidc_state", "oidc_nonce", "oidc_redirect_uri"}
            /\ Value("oidc_state") = {r.location[1].state}
            /\ Value("oidc_nonce") = {r.location[1].nonce}
            /\ Value("oidc_redirect_uri") = {r.location[1].redirect_uri}

\* the endpoint has redirected, with a redirect URI derived from APP_URL
C23_Witness ==
  /\ cf_call.op = "authorize"
  /\ cf_call.resp.status = 307
  /\ cf_call.env.OIDC_REDIRECT_URI = NullStr
  /\ cf_call.env.APP_URL # NullStr
  /\ Cardinality(cf_call.resp.cookies) = 3

\* C24: the answer of the config endpoint has the entries enabled,
\* displayName and authorizeUrl and no other, authorizeUrl is null exactly
\* when OIDC is disabled, and the answer is the same in every environment
\* that differs only in client id, client secret or issuer URL
C24_PublicConfig ==
  cf_call.op = "config" =>
    /\ DOMAIN cf_call.resp = {"enabled", "displayName", "authorizeUrl"}
    /\ cf_call.resp.enabled = CfEnabled(cf_call.env)
    /\ (cf_call.resp.authorizeUrl # "null") <=> cf_call.resp.enabled
    /\ \A id \in {NullStr, <<>>, <<12>>},
          sec \in {NullStr, <<28>>}, iss \in {NullStr, <<18>>} :
         ConfigGET(getOidcConfig([cf_call.env EXCEPT !.OIDC_CLIENT_ID = id,
                                                     !.OIDC_CLIENT_SECRET = sec,
                                                     !.OIDC_ISSUER_URL = iss]))
           = cf_call.resp

\* the endpoint has answered for an enabled configuration with a client
\* secret
C24_Witness ==
  /\ cf_call.op = "config"
  /\ cf_call.resp.enabled
  /\ cf_call.env.OIDC_CLIENT_SECRET # NullStr

\* C27: validateOidcConfig returns null for a configuration that is not
\* enabled; for an enabled one it returns null exactly when client id,
\* client secret and issuer URL are all non-empty, and otherwise the error
\* of the first empty one in the order OIDC_CLIENT_ID, OIDC_CLIENT_SECRET,
\* OIDC_ISSUER_URL, the three errors being different
C27_Validate ==
  cf_call.op = "validateOidcConfig" =>
    LET c == cf_call.cfg
        r == cf_call.result
    IN /\ ~c.enabled => r = "null"
       /\ c.enabled =>
            /\ (r = "null") <=> (c.clientId # <<>> /\ c.clientSecret # <<>> /\ c.issuerUrl # <<>>)
            /\ c.clientId = <<>> => r = "OIDC_CLIENT_ID is required"
            /\ (c.clientId # <<>> /\ c.clientSecret = <<>>)
                 => r = "OIDC_CLIENT_SECRET is required"
            /\ (c.clientId # <<>> /\ c.clientSecret # <<>> /\ c.issuerUrl = <<>>)
                 => r = "OIDC_ISSUER_URL is required"

\* an enabled configuration without client id and without client secret
\* has been validated
C27_Witness ==
  /\ cf_call.op = "validateOidcConfig"
  /\ cf_call.cfg.enabled
  /\ cf_call.cfg.clientId = <<>>
  /\ cf_call.cfg.clientSecret = <<>>
  /\ cf_call.result = "OIDC_CLIENT_ID is required"

\* C28: the configuration getOidcConfig returns is determined by the
\* environment at the time of the call, also on a second call after the
\* environment has changed: enabled is true exactly when OIDC_ENABLED is "1"
\* or "true", autoCreate is false exactly when OIDC_AUTO_CREATE is "false",
\* a set option has the value of its variable and an unset one its default
C28_ConfigFromEnv ==
  cf_call.op = "getOidcConfig" =>
    LET c == cf_call.result
        env == cf_call.env
        Is(value, variable, default) ==
          value = (IF variable = NullStr THEN default ELSE variable)
    IN /\ c.enabled <=> CfEnabled(env)
       /\ ~c.autoCreate <=> env.OIDC_AUTO_CREATE = <<15, 10, 21, 28, 14>>
       /\ Is(c.clientId, env.OIDC_CLIENT_ID, <<>>)
       /\ Is(c.clientSecret, env.OIDC_CLIENT_SECRET, <<>>)
       /\ Is(c.issuerUrl, env.OIDC_ISSUER_URL, <<>>)
       /\ Is(c.redirectUri, env.OIDC_REDIRECT_URI, <<>>)
       /\ Is(c.scopes, env.OIDC_SCOPES,
             <<24, 25, 14, 23, 18, 13, SPACE, 25, 27, 24, 15, 18, 21, 14,
               SPACE, 14, 22, 10, 18, 21>>)
       /\ Is(c.roleClaim, env.OIDC_ROLE_CLAIM, <<16, 27, 24, 30, 25, 28>>)
       /\ Is(c.adminGroup, env.OIDC_ADMIN_GROUP,
             <<30, 22, 10, 22, 18, SPACE + 2, 10, 13, 22, 18, 23>>)
       /\ Is(c.displayName, env.OIDC_DISPLAY_NAME,
             <<Upper(28), 18, 23, 16, 21, 14, SPACE,
               Upper(28), 18, 16, 23, SPACE + 2, Upper(24), 23>>)

\* a second call, after OIDC_ENABLED was set, has returned an enabled
\* configuration where the first returned a disabled one
C28_Witness ==
  /\ cf_call.op = "getOidcConfig"
  /\ cf_call.again
  /\ cf_call.env = cf_env
  /\ ~cf_call.prev.enabled
  /\ cf_call.result.enabled

\* C29, as stated: for a token that does not have exactly three segments,
\* and for one whose middle segment is not the base64url text of a claims
\* object, parseIdTokenClaims returns the empty object; for one whose middle
\* segment is the base64url text of a claims object it returns the claims of
\* that object
C29_Original ==
  cf_call.op = "parseIdTokenClaims" =>
    LET token == cf_call.idToken
        dots == {i \in 1..Len(token) : token[i] = 64}
        first == CHOOSE i \in dots : \A j \in dots : i <= j
        last == CHOOSE i \in dots : \A j \in dots : j <= i
        middle == SubSeq(token, first + 1, last - 1)
        empty == [t |-> "object", claims |-> {}, n |-> 0]
    IN IF Cardinality(dots) # 2 THEN cf_call.result = empty
       ELSE IF middle = Base64Url(<<123, 125>>) THEN cf_call.result = empty
       ELSE IF middle = Base64Url(<<123, 34, 97, 34, 58, 49, 125>>)
       THEN cf_call.result = [t |-> "object", claims |-> {<<97, 1>>}, n |-> 0]
       ELSE cf_call.result = empty

\* ------------------------------------------- callback, further statements
\* C25, as stated: every callback rejected by the state check, be it for a
\* state that differs from the cookie, a bad signature or an expired state,
\* is answered with the same redirect and error text, here the one a
\* mismatch gets
C25_Original ==
  (cb.pc = "done" /\ cb.failed \in {"state_mismatch", "state_verify"}) =>
    cb_resp = [kind |-> "login", set |-> {}, deleted |-> {},
               error |-> "OIDC state mismatch - possible CSRF attack"]

\* C25 (amended): a callback rejected by the state check is redirected to
\* the login page with one of two error texts: one for a state that differs
\* from the cookie or comes without a cookie, and another one, the same for a
\* bad signature and for an expired state, for a state that equals the
\* cookie and does not verify; no other callback gets either text
C25_CsrfTexts ==
  (cb.pc = "done" /\ cb_req.enabled /\ ~Truthy(cb_req.error)
     /\ Truthy(cb_req.code) /\ Truthy(cb_req.state)) =>
    LET mismatch == ~Truthy(cb_req.savedState) \/ cb_req.state # cb_req.savedState
        texts == {"OIDC state mismatch - possible CSRF attack",
                  "OIDC state verification failed (expired or tampered)"}
    IN /\ mismatch =>
            cb_resp = [kind |-> "login", set |-> {}, deleted |-> {},
                       error |-> "OIDC state mismatch - possible CSRF attack"]
       /\ (~mismatch /\ ~SignedAndFresh(cb_req.state)) =>
            cb_resp = [kind |-> "login", set |-> {}, deleted |-> {},
                       error |-> "OIDC state verification failed (expired or tampered)"]
       /\ (~mismatch /\ SignedAndFresh(cb_req.state)) => cb_resp.error \notin texts

\* a state that carries the signature of the application and has expired
\* has been rejected
C25_Witness ==
  /\ cb.pc = "done"
  /\ cb.failed = "state_verify"
  /\ cb_req.state = cb_issued.state
  /\ LET parts == Split(cb_req.state)
     IN /\ parts[3] = createHmac(AppSecret, parts[1] \o <<DOT>> \o parts[2])
        /\ now - parseInt36(parts[1]).val > DEFAULT_MAX_AGE_MS

\* C26: a callback in which exchangeCode or getUserInfo fails, a failed
\* discovery fetch inside them included, has called neither
\* findOrCreateOidcUser nor applyTeamMappings, which alone write accounts and
\* memberships, has made no session token and ends in the error redirect
C26_NoPartialState ==
  cb.failed \in {"exchange", "userinfo"} =>
    /\ ~Called("findOrCreateOidcUser")
    /\ ~Called("applyTeamMappings")
    /\ cb.user = "none" /\ cb.team = "none"
    /\ ~TokenCreated
    /\ cb.pc = "done" /\ cb_resp.kind = "login" /\ cb_resp.set = {}

\* the token exchange of a callback has failed
C26_Witness ==
  /\ cb.pc = "done"
  /\ cb.failed = "exchange"
  /\ Called("exchangeCode")
  /\ cb.stateOk

\* ------------------------------------------- two callbacks at the same time
\* Two callbacks of one identity run steps 6 and 6b side by side; each
\* Prisma call is a step of its own. The user table rejects a second row with
\* a taken username (the index the catch of line 153 speaks of); whether the
\* teamUser table rejects a second row for a user and team is left open.

\* line 121: the lookup, and for a found account the found branch, which
\* writes nothing here since roles and usernames of the table are the
\* mapped ones; without an account the callback creates one or throws
CcLookup(c) ==
  LET p == cc_proc[c] IN
  /\ p.pc = "idle"
  /\ \E pick \in findFirst(pv_users, LookupNames(p.userInfo)) :
       LET r == findOrCreateOidcUser(pv_users, p.userInfo, NoPvCall.idTokenClaims,
                                     p.autoCreate, pick)
       IN IF pick # 0
          THEN /\ pv_users' = r.users
               /\ cc_proc' = [cc_proc EXCEPT ![c].pc = "team", ![c].pick = pick,
                                             ![c].kind = "ok", ![c].userId = r.user.id,
                                             ![c].t = 1]
          ELSE /\ pv_users' = pv_users
               /\ cc_proc' = [cc_proc EXCEPT
                                ![c].pc = IF MayCreate(p.autoCreate) THEN "create"
                                          ELSE "done",
                                ![c].kind = IF MayCreate(p.autoCreate) THEN "none"
                                            ELSE "error"]
  /\ UNCHANGED <<pv_call, pv_logins>>
  /\ UNCHANGED <<clockVars, stVars, dcVars, cbVars, rlVars, tmVars, cfVars>>

\* line 172: user.create with the derived username; a taken username makes
\* it throw, and the catch of the callback answers with the error redirect
CcCreate(c) ==
  LET p == cc_proc[c]
      oidcUsername == buildOidcUsername(p.userInfo.sub, p.userInfo.preferred_username,
                                        p.userInfo.email)
      taken == \E i \in 1..Len(pv_users) : pv_users[i].username = oidcUsername
      newUser == [id |-> Len(pv_users) + 1, username |-> oidcUsername,
                  role |-> mapOidcRole(p.userInfo, NoPvCall.idTokenClaims, ProvAdminGroup)]
  IN /\ p.pc = "create"
     /\ pv_users' = IF taken THEN pv_users ELSE Append(pv_users, newUser)
     /\ cc_proc' = [cc_proc EXCEPT ![c].pc = IF taken THEN "done" ELSE "team",
                                   ![c].kind = IF taken THEN "error" ELSE "ok",
                                   ![c].userId = IF taken THEN 0 ELSE newUser.id,
                                   ![c].t = IF taken THEN 0 ELSE 1]
     /\ UNCHANGED <<pv_call, pv_logins>>
     /\ UNCHANGED <<clockVars, stVars, dcVars, cbVars, rlVars, tmVars, cfVars>>

\* oidc-teams.ts lines 151-232 for team t of the loop: the first rule that
\* matches the groups claim "a", then findUnique and findFirst
CcTeamCheck(c) ==
  LET p == cc_proc[c]
      rules == tm_rules[p.t]
      matching == {i \in 1..Len(rules) : matchesClaim(Str(<<10>>), rules[i].claimValue)}
      existing == \E i \in 1..Len(tm_members) :
                    tm_members[i].userId = p.userId /\ tm_members[i].teamId = p.t
  IN /\ p.pc = "team"
     /\ cc_proc' =
          IF p.t > Cardinality(TeamIds) THEN [cc_proc EXCEPT ![c].pc = "done"]
          ELSE IF matching = {} \/ p.t \notin tm_teams \/ existing
            THEN [cc_proc EXCEPT ![c].t = p.t + 1]
          ELSE [cc_proc EXCEPT ![c].pc = "join",
                               ![c].role = rules[CHOOSE i \in matching :
                                                   \A j \in matching : i <= j].teamRole]
     /\ UNCHANGED <<pvVars, tmVars>>
     /\ UNCHANGED <<clockVars, stVars, dcVars, cbVars, rlVars, cfVars>>

\* oidc-teams.ts lines 235-247: teamUser.create stores the row, or throws
\* into the catch when the table rejects a second row for the pair
CcTeamCreate(c) ==
  LET p == cc_proc[c]
      existing == \E i \in 1..Len(tm_members) :
                    tm_members[i].userId = p.userId /\ tm_members[i].teamId = p.t
  IN
  /\ p.pc = "join"
  /\ \E rejected \in {FALSE, existing} :
       tm_members' = IF rejected THEN tm_members
                     ELSE Append(tm_members, [id |-> Len(tm_members) + 1,
                                              teamId |-> p.t, userId |-> p.userId,
                                              role |-> IF p.role = "" THEN "team_member"
                                                       ELSE p.role])
  /\ cc_proc' = [cc_proc EXCEPT ![c].pc = "team", ![c].t = p.t + 1]
  /\ UNCHANGED <<tm_rules, tm_teams, tm_call, tm_logins, tm_edit, tm_clock, tm_edits,
                 tm_nextId, tm_redis, tm_keys>>
  /\ UNCHANGED <<clockVars, stVars, dcVars, cbVars, rlVars, pvVars, cfVars>>

\* the identity has an account or not, the table may hold another account,
\* auto-create is on or off, and each team has up to MaxRules rules for "a"
\* or "b"
InitConc ==
  /\ now = 0
  /\ ticks = 0
  /\ CfIdle
  /\ StIdle
  /\ DcIdle
  /\ CbIdle
  /\ RlIdle
  /\ pv_users \in {<<>>, <<[id |-> 1, username |-> <<10>>, role |-> "user"]>>,
                   <<[id |-> 1, username |-> <<14>>, role |-> "user"]>>}
  /\ pv_call = NoPvCall
  /\ pv_logins = 0
  /\ tm_rules \in {m \in InitRuleMaps :
                     \A t \in TeamIds : \A i \in 1..Len(m[t]) :
                       m[t][i].teamRole = "team_member"}
  /\ tm_teams \in {TeamIds, {2}}
  /\ tm_members = <<>>
  /\ tm_call = NoTmCall
  /\ tm_logins = 0
  /\ tm_edit = [a \in Admins |-> NoEdit]
  /\ tm_clock = 0
  /\ tm_edits = 0
  /\ tm_nextId = 1
  /\ tm_redis = TRUE
  /\ tm_keys = {t \in TeamIds : tm_rules[t] # <<>>}
  /\ \E autoCreate \in BOOLEAN :
       cc_proc = [c \in {1, 2} |->
                    [pc |-> "idle",
                     userInfo |-> [NoPvCall.userInfo EXCEPT !.sub = <<1>>,
                                                            !.preferred_username = <<10>>],
                     autoCreate |-> autoCreate, pick |-> 0, kind |-> "none",
                     userId |-> 0, t |-> 0, role |-> ""]]

NextConc ==
  \E c \in {1, 2} :
    \/ CcLookup(c)
    \/ CcCreate(c)
    \/ CcTeamCheck(c)
    \/ CcTeamCreate(c)

SpecConc == InitConc /\ [][NextConc]_vars

\* C37, as stated: when two callbacks of an identity without an account run
\* at the same time with auto-create on, in every interleaving at most one
\* account with the derived username exists once both are through, and both
\* have resolved to that account
C37_Original ==
  (/\ \A c \in {1, 2} : cc_proc[c].pc \in {"team", "join", "done"}
   /\ \A c \in {1, 2} : cc_proc[c].autoCreate /\ cc_proc[c].pick = 0) =>
    /\ Cardinality({i \in 1..Len(pv_users) : pv_users[i].username = <<10>>}) <= 1
    /\ \A c \in {1, 2} : cc_proc[c].kind = "ok"
    /\ cc_proc[1].userId = cc_proc[2].userId

\* C38, as stated: in every state, also after interleaved logins of one
\* user, the teamUser table holds at most one membership per user and team
C38_Original ==
  \A i, j \in 1..Len(tm_members) :
    (tm_members[i].userId = tm_members[j].userId
       /\ tm_members[i].teamId = tm_members[j].teamId) => i = j

\* ------------------------------------------------ rule store, statements
\* C31: after any calls of addTeamRule and removeTeamRule on a store that
\* started empty, no key of the stored object holds an empty list, and the
\* removal that has just emptied a team's list has deleted the team's key
C31_NoEmptyList ==
  /\ \A t \in tm_keys : tm_rules[t] # <<>>
  /\ \A t \in TeamIds : tm_rules[t] # <<>> => t \in tm_keys
  /\ \A a \in Admins :
       LET e == tm_edit[a]
       IN (/\ e.op = "remove" /\ e.result = "ok" /\ e.wroteAt = tm_clock
           /\ e.written[e.teamId] = <<>>)
          => e.teamId \notin tm_keys

\* a removal has just emptied the list of a team that had a rule, while
\* the other team keeps its rules
C31_Witness ==
  \E a \in Admins :
    LET e == tm_edit[a]
    IN /\ e.op = "remove" /\ e.result = "ok" /\ e.wroteAt = tm_clock
       /\ e.readOk
       /\ e.all[e.teamId] # <<>>
       /\ e.written[e.teamId] = <<>>
       /\ tm_keys = TeamIds \ {e.teamId}

\* C32: in every state of the rule store, also after interleaved calls of
\* addTeamRule and removeTeamRule, the ids of the rules of one team's list
\* are pairwise distinct (randomUUID returns fresh values)
C32_DistinctIds ==
  \A t \in TeamIds : \A i, j \in 1..Len(tm_rules[t]) :
    tm_rules[t][i].id = tm_rules[t][j].id => i = j

\* a team's list holds two rules after two calls raced on the store
C32_Witness ==
  /\ \E t \in TeamIds : Len(tm_rules[t]) >= 2
  /\ \E a, b \in Admins : EdRaced(a, b) /\ tm_edit[b].op = "add"

\* ---------------------------------------------- team sync, failure handling
\* ensuring the membership for team f failed in the run: a rule of f
\* matched, and the team was missing or a Prisma call threw
TmFailed(f) ==
  /\ TmMatching(f) # {}
  /\ \/ f \notin tm_teams
     \/ tm_call.fault.teamId = f /\ tm_call.fault.at \in {"findUnique", "findFirst"}
     \/ /\ tm_call.fault.teamId = f /\ tm_call.fault.at = "create"
        /\ f \in tm_teams /\ ~TmWasMember(f)

\* C33: in one run, a failure while ensuring the membership for one team
\* (team missing, lookup error, create error) stays with that team: no
\* error leaves the run, the failed team gets no membership, and every other
\* team with rules has its rules looked at up to the first match and gets
\* its membership when a rule matches.
C33_FailureStaysLocal ==
  tm_call.done =>
    \A f \in TeamIds :
      TmFailed(f) =>
        /\ ~tm_call.thrown
        /\ TmCreated(f) = {}
        /\ \A t \in TeamIds \ {f} :
             /\ TmMatching(t) = {} => TmEvaluated(t) = 1..Len(tm_call.rules[t])
             /\ TmMatching(t) # {} =>
                  LET first == CHOOSE i \in TmMatching(t) :
                                 \A j \in TmMatching(t) : i <= j
                  IN /\ TmEvaluated(t) = 1..first
                     /\ (t \in tm_teams /\ ~TmWasMember(t) /\ ~TmFaulted(t)) =>
                          /\ Cardinality(TmCreated(t)) = 1
                          /\ \A i \in TmCreated(t) :
                               tm_members[i].role = tm_call.rules[t][first].teamRole

\* the create for team 1 threw, and team 2, which comes after it, got the
\* membership of its matching rule
C33_Witness ==
  /\ tm_call.done
  /\ tm_call.fault = [teamId |-> 1, at |-> "create"]
  /\ TmFailed(1)
  /\ TmCreated(1) = {}
  /\ 2 \in tm_teams /\ ~TmWasMember(2)
  /\ TmMatching(2) # {}
  /\ Cardinality(TmCreated(2)) = 1

\* ------------------------------------------- provisioning, rename conflict
\* the call found an account under another username than the derived one,
\* and a different account holds the derived username
PvRenameConflict ==
  /\ pv_call.pc # "idle"
  /\ pv_call.pick # 0
  /\ LET oidcUsername == buildOidcUsername(pv_call.userInfo.sub,
                                           pv_call.userInfo.preferred_username,
                                           pv_call.userInfo.email)
     IN /\ pv_call.before[pv_call.pick].username # oidcUsername
        /\ \E j \in 1..Len(pv_call.before) :
             j # pv_call.pick /\ pv_call.before[j].username = oidcUsername

\* C34: when the found account has another username than the derived one
\* and the rename fails on the unique index, the call still succeeds and
\* returns that account with the username it had, the role written before the
\* rename attempt stays, and no other account is touched.
C34_RenameConflictSwallowed ==
  PvRenameConflict =>
    /\ pv_call.kind = "ok"
    /\ pv_call.user.id = pv_call.pick
    /\ pv_call.user.username = pv_call.before[pv_call.pick].username
    /\ pv_users[pv_call.pick].username = pv_call.before[pv_call.pick].username
    /\ pv_call.user.role = PvRole
    /\ pv_users[pv_call.pick].role = PvRole
    /\ Len(pv_users) = Len(pv_call.before)
    /\ \A j \in 1..Len(pv_users) : j # pv_call.pick => pv_users[j] = pv_call.before[j]

\* a rename conflict in a call that changed the role of the found account
C34_Witness ==
  /\ PvRenameConflict
  /\ pv_call.kind = "ok"
  /\ pv_call.before[pv_call.pick].role = "user"
  /\ pv_users[pv_call.pick].role = "admin"

\* ------------------------------------------------- redirect URI of a flow
\* C35: in one flow, whenever the callback gets to the token exchange, the
\* redirect_uri it passes to exchangeCode is the redirect_uri of the
\* authorization request, which the authorize endpoint had stored in the
\* oidc_redirect_uri cookie.
C35_SameRedirectUri ==
  cf_call.op = "callback" =>
    /\ cf_call.exchanged # <<>> => cf_call.kept /\ Truthy(cf_call.code)
    /\ \A i \in 1..Len(cf_call.exchanged) : cf_call.exchanged[i] = cf_call.sent

\* the exchange is reached with a configured redirect URI that is not the
\* address the callback derives for itself
C35_Witness ==
  /\ cf_call.op = "callback"
  /\ cf_call.exchanged = <<cf_call.sent>>
  /\ cf_call.sent = cf_env.OIDC_REDIRECT_URI
  /\ Truthy(cf_env.APP_URL)

\* ------------------------------------------------ nonce binding of a login
\* C36, as stated: a login completes only if the nonce claim of the
\* identity token equals the oidc_nonce cookie issued at authorization, also
\* when the token carries no nonce claim or cannot be decoded (the claim is
\* then undefined)
C36_Original ==
  (/\ cb_resp.kind = "complete"
   /\ Truthy(cb_req.savedNonce)
   /\ cb_req.savedNonce = cb_issued.nonce) =>
    cb.idNonce = cb_req.savedNonce

\* ------------------------------------------- provisioning, two identities
\* C39, as stated: two logins that provisioning resolves to the same
\* account id carry the same sub claim; here the first login had sub "1" and
\* the second has sub "2"
C39_Original ==
  (/\ pv_call.pc # "idle"
   /\ pv_call.userInfo.sub = <<2>>
   /\ pv_call.prevKind = "ok"
   /\ pv_call.kind = "ok") =>
    pv_call.user.id # pv_call.prevId

\* ---------------------------------------------- stored rules, blank values
\* C40, as stated: every rule that a POST has stored has a non-empty
\* claimField and a non-empty claimValue, and a request whose value is
\* missing or blank is answered 400 and stores nothing
C40_Original ==
  LET e == tm_edit[1]
  IN (e.method = "POST" /\ e.pc = "done" /\ e.isAdmin /\ tm_redis /\ e.parsed) =>
       /\ (e.body.claimField = "" \/ trim(e.body.claimValue) = <<>>
             \/ e.body.claimValue = NullStr) =>
            e.status = 400 /\ tm_rules = e.stored
       /\ e.status = 201 =>
            e.rule.claimField # "" /\ e.rule.claimValue # <<>>
====
